---- MODULE Spec2Model ----
(***************************************************************************)
(* Triage pipeline of the Gemini e-mail responder: EmailFilter (risk       *)
(* scoring), EmailProcessor (categorisation), EmailTracker (ledger) and    *)
(* EmailAutomationSystem (decision policy and per-email handler).          *)
(*                                                                         *)
(* Text is modelled as a sequence of tokens (words and the punctuation     *)
(* marks "@", ".", "<", ">" the patterns of the code look for).            *)
(* str.lower() maps every token to its lower-case spelling, substring      *)
(* search is search for a contiguous run of tokens, where a single word is *)
(* also found inside a longer word (Infix), and re.match is a match of a   *)
(* prefix.                                                                 *)
(*                                                                         *)
(* A Python float x is the record [t |-> t, m |-> m] with                  *)
(* x = t/10 + m * 2^-56/10 exactly; FRound is IEEE-754 round-to-nearest-   *)
(* even of binary64 expressed in that unit.                                *)
(*                                                                         *)
(* The clock counts hours.                                                 *)
(***************************************************************************)
EXTENDS Integers, Sequences, FiniteSets, TLC

VARIABLES
    inbox,             \* e-mails the mail source can hand to the handler
    config,            \* EmailAutomationSystem.config
    now,               \* datetime.now(), in hours
    processed_emails,  \* EmailTracker.processed_emails: [emails, last_cleanup]
    replies,           \* history: replies dispatched per id since its record was created
    last,              \* history: what the latest process_single_email call did
    arg,               \* arguments of a direct call of an EmailFilter classmethod
    ret,               \* result of that call
    history_file,      \* what the file EmailTracker.history_file holds
    auto_cleanup,      \* history: when mark_as_processed last ran the cleanup
    dispatched,        \* history: the replies sent inside the rate window that ends now
    peer               \* the second pipeline process on the same history file, if any

vars == <<inbox, config, now, processed_emails, replies, last, arg, ret,
          history_file, auto_cleanup, dispatched,
          peer>>

----------------------------------------------------------------------------
(* Tokens and strings *)

\* the spellings with an upper-case letter that occur in the model, and what
\* str.lower() makes of them
LowerForm ==
    ("A" :> "a") @@ ("B" :> "b") @@ ("Bob" :> "bob") @@ ("Service" :> "service")
    @@ ("You" :> "you") @@ ("Your" :> "your") @@ ("Receipt" :> "receipt")
    @@ ("PAYMENT" :> "payment") @@ ("RECEIVED" :> "received") @@ ("PayPal" :> "paypal")
    @@ ("NoReply" :> "noreply") @@ ("Invoice" :> "invoice") @@ ("URGENT" :> "urgent")
    @@ ("HTTP://A.EXAMPLE" :> "http://a.example")

LowerTok(tok) == IF tok \in DOMAIN LowerForm THEN LowerForm[tok] ELSE tok

Lower(s) == [i \in DOMAIN s |-> LowerTok(s[i])]

\* the number of upper-case letters of each of these spellings
UpperLetters ==
    ("A" :> 1) @@ ("B" :> 1) @@ ("Bob" :> 1) @@ ("Service" :> 1)
    @@ ("You" :> 1) @@ ("Your" :> 1) @@ ("Receipt" :> 1)
    @@ ("PAYMENT" :> 7) @@ ("RECEIVED" :> 8) @@ ("PayPal" :> 2)
    @@ ("NoReply" :> 2) @@ ("Invoice" :> 1) @@ ("URGENT" :> 6)
    @@ ("HTTP://A.EXAMPLE" :> 12)

\* sum(1 for c in tok if c.isupper())
UpperChars(tok) == IF tok \in DOMAIN UpperLetters THEN UpperLetters[tok] ELSE 0

\* words that stand for a run of one letter too long to spell out, and the
\* number of characters of each ("x*5001" is the letter x 5001 times)
Filler ==
    ("x*4981" :> 4981) @@ ("x*4990" :> 4990) @@ ("x*5000" :> 5000) @@ ("x*5001" :> 5001)

\* len(tok)
CharLen(tok) == IF tok \in DOMAIN Filler THEN Filler[tok] ELSE Len(tok)

\* tok[:k]
Prefix(tok, k) ==
    IF tok \in DOMAIN Filler
    THEN IF k >= Filler[tok] THEN tok ELSE CHOOSE f \in DOMAIN Filler : Filler[f] = k
    ELSE IF k >= Len(tok) THEN tok ELSE SubSeq(tok, 1, k)

\* len() of the text whose words are the tokens of s, one blank between two words
RECURSIVE TextLen(_)
TextLen(s) ==
    IF s = <<>> THEN 0
    ELSE CharLen(Head(s)) + (IF Tail(s) = <<>> THEN 0 ELSE 1 + TextLen(Tail(s)))

\* the elements of a sequence
Range(seq) == { seq[i] : i \in DOMAIN seq }

\* the words of the lists of the program that each of these words contains as
\* a proper substring ("fee" in "feedback")
Infix ==
    ("thanks" :> {"thank"}) @@ ("dislike" :> {"like"}) @@ ("unhappy" :> {"happy"})
    @@ ("unsatisfied" :> {"satisfied"}) @@ ("feedback" :> {"fee"})
    @@ ("billing" :> {"bill"})

\* word in tok
TokHas(tok, word) == tok = word \/ (tok \in DOMAIN Infix /\ word \in Infix[tok])

\* k in s: a single word is found inside a word of s, a phrase as a run of words
Contains(s, k) ==
    IF Len(k) = 1
    THEN \E i \in DOMAIN s : TokHas(s[i], k[1])
    ELSE \E i \in 1..(Len(s) - Len(k) + 1) : \A j \in 1..Len(k) : s[i + j - 1] = k[j]

StartsWith(s, k) == Len(s) >= Len(k) /\ SubSeq(s, 1, Len(k)) = k

EndsWith(s, k) == Len(s) >= Len(k) /\ SubSeq(s, Len(s) - Len(k) + 1, Len(s)) = k

Get(d, key, default) == IF key \in DOMAIN d THEN d[key] ELSE default

----------------------------------------------------------------------------
(* The e-mails of the model *)

Email(id, from, subject, body) ==
    [id |-> id, from |-> from, subject |-> subject, body |-> body]

Addr(local, domain) == <<local, "@">> \o domain

Named(name, address) == <<name, "<">> \o address \o <<">">>

FromAB == Addr("a", <<"b", ".", "com">>)

FromABUpper == <<"A", "@", "B", ".", "com">>

BodyQuestion == <<"when", "do", "you", "open">>

BodySpam4 ==
    <<"click", "here", "to", "claim", "your", "lottery", "winnings", "get", "rich", "quick">>

SubjectWon == <<"You", "won", "million", "dollars">>

E1 == Email(1, FromAB, <<"opening", "hours">>, BodyQuestion)

E2 == Email(2, FromABUpper, <<"opening", "hours">>, BodyQuestion)

E3 == Email(3, FromAB, <<"one", "more", "question">>, BodyQuestion)

\* two suspicious attachments: score 0.6
E4 == Email(4, FromAB, <<"see", "attachment">>, <<"open", ".exe", "or", ".zip">>)

E5 == Email(5, Addr("noreply", <<"service", ".", "com">>), <<"opening", "hours">>, BodyQuestion)

E6 == Email(6, Named("Service", Addr("noreply", <<"service", ".", "com">>)),
            <<"opening", "hours">>, BodyQuestion)

E7 == Email(7, Addr("user", <<"paypal", ".", "com">>), <<"Your", "Receipt">>, BodyQuestion)

\* four spam keywords: score 0.4, category spam
E8 == Email(8, Addr("spammer", <<"fake", ".", "com">>), SubjectWon, BodySpam4)

\* no subject header
E9 == [id |-> 9, from |-> FromAB, body |-> BodyQuestion]

\* what the mail source delivers in the pipeline specification: one of these
\* mailboxes
Mailboxes == { {E1, E2, E3, E4}, {E5, E6, E7}, {E8, E9, E1} }

PipelineInbox == UNION Mailboxes

\* the e-mails the filter is called with directly
NoReplyLocals ==
    { "noreply", "no-reply", "donotreply", "do-not-reply", "notifications",
      "alerts", "automated", "system", "mailer-daemon", "postmaster" }

FilterFroms ==
    { FromAB, FromABUpper, Named("Bob", FromAB), <<>>,
      <<"NoReply", "@", "service", ".", "com">>,
      Addr("user", <<"paypal", ".", "com">>),
      Addr("user", <<"paypal", ".", "security-alert", ".", "com">>),
      Addr("billing", <<"PayPal", ".", "com">>),
      Addr("billing", <<"stripe", ".", "com">>),
      Named("PayPal", Addr("x", <<"mail", ".", "com">>)),
      Addr("voita", <<"arvonta", ".", "fi">>) }
    \cup { Addr(l, <<"service", ".", "com">>) : l \in NoReplyLocals }
    \cup { Named("Service", Addr(l, <<"service", ".", "com">>)) : l \in NoReplyLocals }

FilterSubjects ==
    { <<>>, <<"opening", "hours">>, <<"Your", "Receipt">>, <<"PAYMENT", "RECEIVED">>,
      <<"transaction", "failed">>, SubjectWon, <<"URGENT", "reply">> }

FilterBodies ==
    { <<>>, BodyQuestion, BodySpam4,
      <<"open", ".exe", "or", ".zip", "or", ".rar">>,
      <<"free", "money", "jackpot", "casino", "bitcoin", "lottery", "viagra", "see", "bit.ly">>,
      <<".exe", ".zip", ".bat", "at", "bit.ly", "or", "goo.gl">> }

FilterEmails ==
    { Email(1, f, s, b) : f \in FilterFroms, s \in FilterSubjects, b \in FilterBodies }

\* one keyword of each category, lowest rank of priority_order first
ClassifyWords == << "enjoyed", "lottery", "feature", "login", "refund", "complaint", "urgent" >>

\* the words of ClassifyWords whose positions from i on are in S, in order
RECURSIVE SubText(_, _)
SubText(S, i) ==
    IF i > Len(ClassifyWords) THEN <<>>
    ELSE (IF i \in S THEN <<ClassifyWords[i]>> ELSE <<>>) \o SubText(S, i + 1)

\* for every set of categories a text with a keyword of exactly these, once
\* all in the body and once with its first word as the subject
CategoryEmails ==
    { Email(1, FromAB,
            IF k <= Len(SubText(S, 1)) THEN SubSeq(SubText(S, 1), 1, k) ELSE <<>>,
            IF k <= Len(SubText(S, 1))
            THEN SubSeq(SubText(S, 1), k + 1, Len(SubText(S, 1))) ELSE <<>>) :
        S \in SUBSET (1..Len(ClassifyWords)), k \in 0..1 }

MaxWords == 3

SentimentWords == { "good", "thanks", "bad", "dislike", "unhappy", "not", "working" }

\* every text of at most MaxWords words of SentimentWords
SentimentEmails ==
    { Email(1, FromAB, <<>>, body) :
        body \in UNION { [1..n -> SentimentWords] : n \in 0..MaxWords } }

OtherEmails ==
    { Email(1, FromAB, <<"URGENT", "reply">>, <<"feedback">>),
      Email(1, FromAB, <<"Invoice">>, <<"unsatisfied">>),
      Email(1, FromAB, <<"billing">>, <<"good">>),
      Email(1, FromAB, <<"bad">>, <<"experience">>),
      Email(1, FromAB, <<"feedback">>, <<>>),
      [id |-> 1, from |-> FromAB, body |-> <<"urgent">>],
      [id |-> 1, from |-> FromAB, subject |-> <<"great">>] }

ClassifyEmails == CategoryEmails \cup SentimentEmails \cup OtherEmails

ThresholdTenths == {0, 5, 9, 10}

----------------------------------------------------------------------------
(* binary64 arithmetic on the values the scorer computes *)

Ulp(t, m) ==
    IF t <= 1 THEN 10
    ELSE IF t <= 2 THEN 20
    ELSE IF t < 5 \/ (t = 5 /\ m < 0) THEN 40
    ELSE IF t < 10 \/ (t = 10 /\ m < 0) THEN 80
    ELSE IF t < 20 \/ (t = 20 /\ m < 0) THEN 160
    ELSE IF t < 40 \/ (t = 40 /\ m < 0) THEN 320
    ELSE 640

FRound(t, m) ==
    LET \* r is the part of the value below one ulp, odd the last kept bit
        Nearest(ulp, r, odd) ==
            IF 2 * r < ulp THEN [t |-> t, m |-> m - r]
            ELSE IF 2 * r > ulp THEN [t |-> t, m |-> m + ulp - r]
            ELSE IF odd = 0 THEN [t |-> t, m |-> m - r]
            ELSE [t |-> t, m |-> m + ulp - r]
        Split(ulp, r2) == Nearest(ulp, r2 % ulp, (r2 - (r2 % ulp)) \div ulp)
        Round(ulp)     == Split(ulp, (t * 256 + m) % (2 * ulp))
    IN  IF t = 0 /\ m = 0 THEN [t |-> 0, m |-> 0] ELSE Round(Ulp(t, m))

Lit(t) == FRound(t, 0)

FAdd(x, y) == FRound(x.t + y.t, x.m + y.m)

FMulInt(k, x) == FRound(k * x.t, k * x.m)

FLeq(x, y) == x.t < y.t \/ (x.t = y.t /\ x.m <= y.m)

FMin(x, y) == IF FLeq(y, x) THEN y ELSE x

----------------------------------------------------------------------------
(* EmailFilter *)

NO_REPLY_PATTERNS ==
    << <<"noreply", "@">>, <<"no-reply", "@">>,
       <<"donotreply", "@">>, <<"do-not-reply", "@">>,
       <<"notifications", "@">>, <<"alerts", "@">>,
       <<"automated", "@">>, <<"system", "@">>,
       <<"mailer-daemon", "@">>, <<"postmaster", "@">> >>

\* the brand of each pattern r'.*@.*<brand>\..*', then r'.*voita@.*'
SUSPICIOUS_SENDERS ==
    << "paypal", "banking", "amazon", "ebay", "lottery", "winner", "prize",
       "kilpailu", "arvonta" >>

WHITELIST_DOMAINS ==
    << <<"@", "paypal", ".", "com">>, <<"@", "amazon", ".", "com">>,
       <<"@", "amazon", ".", "co", ".", "uk">>, <<"@", "ebay", ".", "com">>,
       <<"@", "google", ".", "com">>, <<"@", "microsoft", ".", "com">>,
       <<"@", "apple", ".", "com">>, <<"@", "facebook", ".", "com">>,
       <<"@", "linkedin", ".", "com">> >>

SPAM_KEYWORDS ==
    << <<"lottery">>, <<"winner">>, <<"million", "dollars">>,
       <<"inheritance">>, <<"bitcoin">>,
       <<"investment", "opportunity">>, <<"claim", "your">>,
       <<"free", "money">>, <<"jackpot">>, <<"casino">>,
       <<"get", "rich">>, <<"earn", "money", "fast">>,
       <<"prize", "winner">>,
       <<"voita">>, <<"arvonta">>, <<"kilpailu">>,
       <<"ilmainen">>, <<"voittaja">>,
       <<"act", "now">>, <<"limited", "time">>,
       <<"expires", "today">>, <<"urgent", "action", "required">>,
       <<"verify", "your", "account">>, <<"suspended", "account">>,
       <<"click", "here", "immediately">>, <<"confirm", "your", "identity">>,
       <<"update", "payment", "information">>,
       <<"xxx">>, <<"adult">>, <<"singles">>, <<"dating">>,
       <<"viagra">>, <<"cialis">>, <<"pharmacy">>,
       <<"pills">>, <<"medication">> >>

suspicious_extensions == << ".exe", ".zip", ".rar", ".bat", ".cmd", ".scr" >>

url_shorteners == << "bit.ly", "tinyurl.com", "goo.gl", "ow.ly", "t.co" >>

payment_keywords == << "receipt", "payment", "invoice", "transaction" >>

payment_domains == << "paypal", "stripe", "square", "venmo" >>

\* re.match(pattern, email_address.lower()) for some pattern of NO_REPLY_PATTERNS
is_no_reply_address(email_address) ==
    LET Matches(email_lower) ==
            \E i \in DOMAIN NO_REPLY_PATTERNS : StartsWith(email_lower, NO_REPLY_PATTERNS[i])
    IN  Matches(Lower(email_address))

\* re.search(r'<([^>]+)>', s).group(1): leftmost "<" that is followed by a
\* non-empty run without ">" and then ">"
HasAngleMatch(s) ==
    \E i \in DOMAIN s : \E j \in DOMAIN s :
        /\ s[i] = "<" /\ s[j] = ">" /\ j > i + 1
        /\ \A k \in (i+1)..(j-1) : s[k] # ">"

AngleGroup(s) ==
    LET Closes(i, j) == /\ s[j] = ">" /\ j > i + 1
                        /\ \A k \in (i+1)..(j-1) : s[k] # ">"
        Group(i0) == SubSeq(s, i0 + 1, (CHOOSE j \in DOMAIN s : Closes(i0, j)) - 1)
        First(starts) == CHOOSE i \in starts : \A i2 \in starts : i <= i2
    IN  Group(First({ i \in DOMAIN s : s[i] = "<" /\ \E j \in DOMAIN s : Closes(i, j) }))

\* r'.*@.*<brand>\..*' matched from the start of the string
MatchesBrand(s, brand) ==
    \E i \in DOMAIN s : \E j \in DOMAIN s :
        /\ s[i] = "@" /\ j > i /\ j + 1 <= Len(s)
        /\ s[j] = brand /\ s[j+1] = "."

\* faulty variant: the patterns are tried without looking at the whitelist
is_suspicious_sender_no_whitelist(email_address) ==
    LET hasBrackets == (\E i \in DOMAIN email_address : email_address[i] = "<")
                       /\ (\E i \in DOMAIN email_address : email_address[i] = ">")
        Suspicious(email_lower) ==
            \/ \E p \in DOMAIN SUSPICIOUS_SENDERS :
                   MatchesBrand(email_lower, SUSPICIOUS_SENDERS[p])
            \/ Contains(email_lower, <<"voita", "@">>)
    IN  Suspicious(Lower(IF hasBrackets /\ HasAngleMatch(email_address)
                         THEN AngleGroup(email_address) ELSE email_address))

is_suspicious_sender(email_address) ==
    LET hasBrackets == (\E i \in DOMAIN email_address : email_address[i] = "<")
                       /\ (\E i \in DOMAIN email_address : email_address[i] = ">")
        Suspicious(email_lower) ==
            IF \E d \in DOMAIN WHITELIST_DOMAINS : EndsWith(email_lower, WHITELIST_DOMAINS[d])
            THEN FALSE
            ELSE \/ \E p \in DOMAIN SUSPICIOUS_SENDERS :
                        MatchesBrand(email_lower, SUSPICIOUS_SENDERS[p])
                 \/ Contains(email_lower, <<"voita", "@">>)
    IN  Suspicious(Lower(IF hasBrackets /\ HasAngleMatch(email_address)
                         THEN AngleGroup(email_address) ELSE email_address))

HasWord(s, word) == \E i \in DOMAIN s : s[i] = word

\* for item in items: if item in body: score += inc; reasons.append(label + item)
RECURSIVE ScanBody(_, _, _, _, _)
ScanBody(acc, items, body, inc, label) ==
    IF items = <<>> THEN acc
    ELSE ScanBody(IF HasWord(body, Head(items))
                  THEN [score   |-> FAdd(acc.score, inc),
                        reasons |-> Append(acc.reasons, <<label, Head(items)>>)]
                  ELSE acc,
                  Tail(items), body, inc, label)

\* found_keywords: the keywords of SPAM_KEYWORDS present in subject or body, in list order
RECURSIVE FoundKeywords(_, _, _)
FoundKeywords(keywords, subject, body) ==
    IF keywords = <<>> THEN <<>>
    ELSE (IF Contains(subject, Head(keywords)) \/ Contains(body, Head(keywords))
          THEN <<Head(keywords)>> ELSE <<>>)
         \o FoundKeywords(Tail(keywords), subject, body)

\* sum(1 for c in subject if c.isupper())
RECURSIVE CapsCount(_)
CapsCount(subject) ==
    IF subject = <<>> THEN 0 ELSE UpperChars(Head(subject)) + CapsCount(Tail(subject))

\* faulty variant: the final min(score, 1.0) left out
CapScore_uncapped(score) == score

CapScore(score) == FMin(Lit(10), score)

calculate_spam_score(email_data) ==
    LET Sender(acc, from_address) ==
            IF is_no_reply_address(from_address)
            THEN [score   |-> FAdd(acc.score, Lit(3)),
                  reasons |-> Append(acc.reasons, <<"No-reply address">>)]
            ELSE acc
        Suspicious(acc, from_address) ==
            IF is_suspicious_sender(from_address)
            THEN [score   |-> FAdd(acc.score, Lit(5)),
                  reasons |-> Append(acc.reasons, <<"Suspicious sender pattern">>)]
            ELSE acc
        Keywords(acc, found_keywords, spam_keyword_count) ==
            IF spam_keyword_count > 0
            THEN [score   |-> FAdd(acc.score, FMin(Lit(5), FMulInt(spam_keyword_count, Lit(1)))),
                  reasons |-> Append(acc.reasons,
                                <<"Spam keywords found",
                                  SubSeq(found_keywords, 1,
                                         IF spam_keyword_count < 5 THEN spam_keyword_count ELSE 5)>>)]
            ELSE acc
        KeywordsFound(acc, found_keywords) == Keywords(acc, found_keywords, Len(found_keywords))
        \* caps_ratio = uppercase / len(subject) > 0.5, on the lower-cased subject
        Capitals(acc, subject) ==
            IF subject # <<>> /\ 2 * CapsCount(subject) > TextLen(subject)
            THEN [score   |-> FAdd(acc.score, Lit(2)),
                  reasons |-> Append(acc.reasons, <<"Excessive capitalization">>)]
            ELSE acc
        Capped(acc) == [score |-> CapScore(acc.score), reasons |-> acc.reasons]
        Score(subject, body, from_address) ==
            Capped(
              ScanBody(
                ScanBody(
                  Capitals(
                    KeywordsFound(
                      Suspicious(
                        Sender([score |-> Lit(0), reasons |-> <<>>], from_address),
                        from_address),
                      FoundKeywords(SPAM_KEYWORDS, subject, body)),
                    subject),
                  suspicious_extensions, body, Lit(3), "Suspicious attachment type"),
                url_shorteners, body, Lit(2), "URL shortener detected"))
    IN  Score(Lower(Get(email_data, "subject", <<>>)),
              Lower(Get(email_data, "body", <<>>)),
              Lower(Get(email_data, "from", <<>>)))

\* calculate_spam_score is pure: its values on the e-mails of the model are
\* tabulated once
PipelineScores == [e \in PipelineInbox |-> calculate_spam_score(e)]

FilterScores == [e \in FilterEmails |-> calculate_spam_score(e)]

ScoreOf(email_data) ==
    IF email_data \in PipelineInbox THEN PipelineScores[email_data]
    ELSE IF email_data \in FilterEmails THEN FilterScores[email_data]
    ELSE calculate_spam_score(email_data)

\* for keyword in payment_keywords: if keyword in subject:
\*     for domain in payment_domains: if domain in from_address.lower(): return domain
PaymentHits(subject, from_lower) ==
    { <<k, d>> \in (DOMAIN payment_keywords) \X (DOMAIN payment_domains) :
        HasWord(subject, payment_keywords[k]) /\ HasWord(from_lower, payment_domains[d]) }

FirstPaymentHit(subject, from_lower) ==
    LET First(hits) ==
            CHOOSE h \in hits : \A g \in hits : h[1] < g[1] \/ (h[1] = g[1] /\ h[2] <= g[2])
    IN  First(PaymentHits(subject, from_lower))

\* faulty variant: the payment-processor rule left out
should_skip_email_no_payment(email_data, spam_threshold) ==
    LET from_address == Get(email_data, "from", <<>>)
        Payment(subject, from_lower) == [skip |-> FALSE, reason |-> <<>>]
        Scored(scored) ==
            IF FLeq(spam_threshold, scored.score)
            THEN [skip |-> TRUE, reason |-> <<"High spam score", scored.score, scored.reasons>>]
            ELSE Payment(Lower(Get(email_data, "subject", <<>>)), Lower(from_address))
    IN  IF is_no_reply_address(from_address)
        THEN [skip |-> TRUE, reason |-> <<"No-reply address">>]
        ELSE Scored(ScoreOf(email_data))

\* faulty variant: spam_score > spam_threshold instead of >=
should_skip_email_strict(email_data, spam_threshold) ==
    LET from_address == Get(email_data, "from", <<>>)
        Payment(subject, from_lower) ==
            IF PaymentHits(subject, from_lower) # {}
            THEN [skip |-> TRUE,
                  reason |-> <<"Payment processor email",
                               payment_domains[FirstPaymentHit(subject, from_lower)[2]]>>]
            ELSE [skip |-> FALSE, reason |-> <<>>]
        Scored(scored) ==
            IF ~FLeq(scored.score, spam_threshold)
            THEN [skip |-> TRUE, reason |-> <<"High spam score", scored.score, scored.reasons>>]
            ELSE Payment(Lower(Get(email_data, "subject", <<>>)), Lower(from_address))
    IN  IF is_no_reply_address(from_address)
        THEN [skip |-> TRUE, reason |-> <<"No-reply address">>]
        ELSE Scored(ScoreOf(email_data))

should_skip_email(email_data, spam_threshold) ==
    LET from_address == Get(email_data, "from", <<>>)
        Payment(subject, from_lower) ==
            IF PaymentHits(subject, from_lower) # {}
            THEN [skip |-> TRUE,
                  reason |-> <<"Payment processor email",
                               payment_domains[FirstPaymentHit(subject, from_lower)[2]]>>]
            ELSE [skip |-> FALSE, reason |-> <<>>]
        Scored(scored) ==
            IF FLeq(spam_threshold, scored.score)
            THEN [skip |-> TRUE, reason |-> <<"High spam score", scored.score, scored.reasons>>]
            ELSE Payment(Lower(Get(email_data, "subject", <<>>)), Lower(from_address))
    IN  IF is_no_reply_address(from_address)
        THEN [skip |-> TRUE, reason |-> <<"No-reply address">>]
        ELSE Scored(ScoreOf(email_data))

----------------------------------------------------------------------------
(* EmailProcessor *)

CategoryNames == << "complaint", "product_support", "feature_request", "billing_question", "general_feedback", "urgent_request", "spam" >>
\* the keyword lists of `categories`, in the order of CategoryNames
categories ==
    << << <<"complaint">>, <<"disappointed">>,
          <<"unhappy">>, <<"terrible">>, <<"awful">>,
          <<"poor">>, <<"unsatisfied">>, <<"frustrated">>,
          <<"upset">>, <<"angry">>, <<"annoyed">>,
          <<"dissatisfied">>, <<"problem", "with">>,
          <<"not", "working">>, <<"does", "not", "work">>,
          <<"failed">>, <<"failing">>, <<"issue", "with">>,
          <<"bad", "experience">>, <<"bad", "service">>,
          <<"poor", "quality">> >>,
       << <<"login">>, <<"password">>, <<"error">>,
          <<"not", "working">>, <<"help">>, <<"how", "to">>,
          <<"does", "not", "work">>, <<"broken">>,
          <<"bug">>, <<"technical">>, <<"support">>,
          <<"assistance">>, <<"problem">>,
          <<"troubleshoot">>, <<"issue">>, <<"fix">>,
          <<"solution">> >>,
       << <<"feature">>, <<"suggestion">>, <<"improve">>,
          <<"enhancement">>, <<"add">>, <<"missing">>,
          <<"should", "have">>, <<"would", "be", "nice">>,
          <<"could", "you", "add">>, <<"please", "include">>,
          <<"consider", "adding">>, <<"new", "feature">>,
          <<"functionality">>, <<"capability">> >>,
       << <<"bill">>, <<"charge">>, <<"payment">>,
          <<"refund">>, <<"subscription">>, <<"price">>,
          <<"cost">>, <<"discount">>, <<"invoice">>,
          <<"credit", "card">>, <<"transaction">>,
          <<"receipt">>, <<"cancellation">>, <<"renewal">>,
          <<"billing">>, <<"charged">>, <<"fee">>,
          <<"pricing">> >>,
       << <<"thank">>, <<"great">>, <<"love">>,
          <<"awesome">>, <<"excellent">>, <<"amazing">>,
          <<"good">>, <<"appreciate">>, <<"feedback">>,
          <<"enjoyed">>, <<"wonderful">>, <<"fantastic">>,
          <<"satisfied">>, <<"helpful">>, <<"impressive">> >>,
       << <<"urgent">>, <<"emergency">>, <<"asap">>,
          <<"immediate">>, <<"critical">>, <<"important">>,
          <<"time", "sensitive">>, <<"deadline">>,
          <<"quickly">>, <<"rush">>, <<"priority">>,
          <<"immediately">>, <<"as", "soon", "as", "possible">>,
          <<"promptly">>, <<"fast">>, <<"today">> >>,
       << <<"lottery">>, <<"million", "dollars">>,
          <<"bitcoin">>, <<"investment", "opportunity">>,
          <<"inheritance">>, <<"claim", "your">>,
          <<"free", "money">>, <<"winner">>, <<"jackpot">>,
          <<"casino">>, <<"earn", "money", "fast">>,
          <<"get", "rich">> >> >>

\* faulty variant: complaint is looked at before urgent_request
priority_order_complaint_first ==
    << "complaint", "urgent_request", "billing_question", "product_support",
       "feature_request", "spam", "general_feedback", "customer_inquiry" >>

priority_order ==
    << "urgent_request", "complaint", "billing_question", "product_support",
       "feature_request", "spam", "general_feedback", "customer_inquiry" >>

RECURSIVE MatchedIn(_, _)
MatchedIn(keywords, text) ==
    IF keywords = <<>> THEN <<>>
    ELSE (IF Contains(text, Head(keywords)) THEN <<Head(keywords)>> ELSE <<>>)
         \o MatchedIn(Tail(keywords), text)

\* category_matches[category], for a category of priority_order
category_matches(category, text) ==
    IF \E c \in DOMAIN CategoryNames : CategoryNames[c] = category
    THEN MatchedIn(categories[CHOOSE c \in DOMAIN CategoryNames : CategoryNames[c] = category], text)
    ELSE <<>>

RECURSIVE AllMatched(_, _)
AllMatched(c, text) ==
    IF c > Len(categories) THEN <<>>
    ELSE MatchedIn(categories[c], text) \o AllMatched(c + 1, text)

RECURSIVE FirstMatch(_, _)
FirstMatch(order, text) ==
    IF order = <<>> THEN "none"
    ELSE IF category_matches(Head(order), text) # <<>> THEN Head(order)
    ELSE FirstMatch(Tail(order), text)

_categorize_email(email_data) ==
    LET Result(matched_category, text) ==
            IF matched_category = "none"
            THEN [category |-> "customer_inquiry", keywords |-> <<>>]
            ELSE [category |-> matched_category, keywords |-> AllMatched(1, text)]
        Categorize(text) == Result(FirstMatch(priority_order, text), text)
        \* f"{subject} {body}": tokens are blank-separated, so a keyword of
        \* several words can span the end of the subject and the start of the body
    IN  Categorize(Lower(Get(email_data, "subject", <<>>)) \o Lower(Get(email_data, "body", <<>>)))

positive_words ==
    << <<"good">>, <<"great">>, <<"excellent">>, <<"wonderful">>, <<"amazing">>,
       <<"love">>, <<"like">>, <<"happy">>, <<"pleased">>, <<"satisfied">>,
       <<"thank">>, <<"thanks">>, <<"helpful">>, <<"appreciate">>, <<"awesome">>,
       <<"fantastic">>, <<"perfect">>, <<"best">>, <<"impressed">> >>

negative_words ==
    << <<"bad">>, <<"poor">>, <<"terrible">>, <<"awful">>, <<"horrible">>,
       <<"disappointed">>, <<"upset">>, <<"angry">>, <<"unhappy">>,
       <<"not", "working">>, <<"problem">>, <<"issue">>, <<"broken">>, <<"error">>,
       <<"failed">>, <<"wrong">>, <<"worst">>, <<"hate">>, <<"dislike">>,
       <<"annoyed">>, <<"frustrating">> >>

\* faulty variant: a tie counts as positive
_analyze_sentiment_tie_positive(email_data) ==
    LET Compare(positive_count, negative_count) ==
            IF positive_count >= negative_count THEN "positive" ELSE "negative"
        Count(text) == Compare(Len(MatchedIn(positive_words, text)),
                               Len(MatchedIn(negative_words, text)))
    IN  Count(Lower(Get(email_data, "subject", <<>>) \o Get(email_data, "body", <<>>)))

_analyze_sentiment(email_data) ==
    LET Compare(positive_count, negative_count) ==
            IF positive_count > negative_count THEN "positive"
            ELSE IF negative_count > positive_count THEN "negative"
            ELSE "neutral"
        \* sum(1 for word in words if word in text)
        Count(text) == Compare(Len(MatchedIn(positive_words, text)),
                               Len(MatchedIn(negative_words, text)))
    IN  Count(Lower(Get(email_data, "subject", <<>>) \o Get(email_data, "body", <<>>)))

\* faulty variant: the medium test comes before the high test
_determine_priority_medium_first(email_data, category, sentiment) ==
    IF category \in {"product_support", "billing_question"} \/ sentiment = "negative"
    THEN "medium"
    ELSE IF category \in {"complaint", "urgent_request"} THEN "high"
    ELSE "low"

_determine_priority(email_data, category, sentiment) ==
    IF category \in {"complaint", "urgent_request"} THEN "high"
    ELSE IF category \in {"product_support", "billing_question"} \/ sentiment = "negative"
    THEN "medium"
    ELSE "low"

parse_email_for_response(email_data) ==
    LET Prioritized(parsed, cat, sentiment) ==
            [ from |-> parsed.from, subject |-> parsed.subject, body |-> parsed.body,
              category |-> cat.category, matched_keywords |-> cat.keywords,
              sentiment |-> sentiment,
              priority |-> _determine_priority(parsed, cat.category, sentiment) ]
        Categorized(parsed, cat) == Prioritized(parsed, cat, _analyze_sentiment(parsed))
        Parsed(parsed) == Categorized(parsed, _categorize_email(parsed))
    IN  Parsed([ from    |-> Get(email_data, "from", <<>>),
                 subject |-> Get(email_data, "subject", <<>>),
                 body    |-> Get(email_data, "body", <<>>) ])

\* parse_email_for_response is pure as well
PipelineParses == [e \in PipelineInbox |-> parse_email_for_response(e)]

FilterParses == [e \in FilterEmails |-> parse_email_for_response(e)]

ParseOf(email_data) ==
    IF email_data \in PipelineInbox THEN PipelineParses[email_data]
    ELSE IF email_data \in FilterEmails THEN FilterParses[email_data]
    ELSE parse_email_for_response(email_data)

----------------------------------------------------------------------------
(* EmailTracker *)

max_history_days == 7

SubjectSnippetLen == 100

HoursPerDay == 24

Truncate(s, n) == SubSeq(s, 1, IF Len(s) < n THEN Len(s) ELSE n)

\* _load_history when the history file does not exist
EmptyHistory(t) == [emails |-> <<>>, last_cleanup |-> t]

is_processed(pe, email_id) == email_id \in DOMAIN pe.emails

\* entries with processed_date < cutoff_date
\* faulty variant: an entry exactly max_history_days old is removed as well
emails_to_remove_inclusive(pe, t) ==
    LET cutoff_date == t - HoursPerDay * max_history_days
    IN  { email_id \in DOMAIN pe.emails : pe.emails[email_id].processed_at <= cutoff_date }

emails_to_remove(pe, t) ==
    LET cutoff_date == t - HoursPerDay * max_history_days
    IN  { email_id \in DOMAIN pe.emails : pe.emails[email_id].processed_at < cutoff_date }

_cleanup_old_entries(pe, t) ==
    LET Remove(gone) ==
            IF gone # {}
            THEN [emails       |-> [i \in (DOMAIN pe.emails) \ gone |-> pe.emails[i]],
                  last_cleanup |-> t]
            ELSE pe
    IN  Remove(emails_to_remove(pe, t))

\* (datetime.now() - last_cleanup).days >= 1
CleanupDue(pe, t) == (t - pe.last_cleanup) \div HoursPerDay >= 1

\* faulty variant: an id that has a record keeps it
mark_as_processed_keep_first(pe, t, email_id, email_data, response_sent) ==
    LET Cleanup(written) ==
            IF CleanupDue(written, t) THEN _cleanup_old_entries(written, t) ELSE written
        Write(entry) ==
            Cleanup([ emails |-> [i \in (DOMAIN pe.emails) \cup {email_id} |->
                                     IF i \in DOMAIN pe.emails THEN pe.emails[i] ELSE entry],
                      last_cleanup |-> pe.last_cleanup ])
    IN  Write([ processed_at  |-> t,
                subject       |-> Truncate(Get(email_data, "subject", <<>>), SubjectSnippetLen),
                from          |-> Get(email_data, "from", <<>>),
                category      |-> Get(email_data, "category", "unknown"),
                response_sent |-> response_sent ])

mark_as_processed(pe, t, email_id, email_data, response_sent) ==
    LET Cleanup(written) ==
            IF CleanupDue(written, t) THEN _cleanup_old_entries(written, t) ELSE written
        Write(entry) ==
            Cleanup([ emails |-> [i \in (DOMAIN pe.emails) \cup {email_id} |->
                                     IF i = email_id THEN entry ELSE pe.emails[i]],
                      last_cleanup |-> pe.last_cleanup ])
    IN  Write([ processed_at  |-> t,
                subject       |-> Truncate(Get(email_data, "subject", <<>>), SubjectSnippetLen),
                from          |-> Get(email_data, "from", <<>>),
                category      |-> Get(email_data, "category", "unknown"),
                response_sent |-> response_sent ])

\* os.path.exists(history_file) is false
Absent == [exists |-> FALSE]

\* json.dump(processed_emails, f): the members of the two objects
json_dump(pe) ==
    [ exists       |-> TRUE,
      emails       |-> { <<email_id, pe.emails[email_id]>> : email_id \in DOMAIN pe.emails },
      last_cleanup |-> pe.last_cleanup ]

\* json.load(f)
json_load(file) ==
    [ emails       |-> [ email_id \in { member[1] : member \in file.emails } |->
                           (CHOOSE member \in file.emails : member[1] = email_id)[2] ],
      last_cleanup |-> file.last_cleanup ]

\* a file that does not hold what _save_history wrote:
\*   "unreadable"  open() raises IOError
\*   "not_json"    json.load raises JSONDecodeError (an empty or cut-off file)
\*   "not_text"    reading raises UnicodeDecodeError (bytes that are no text)
\*   "not_ledger"  json.load returns a value that is no dict (the file holds [])
Damaged(kind) == [exists |-> TRUE, damaged |-> kind]

DamageKinds == {"unreadable", "not_json", "not_text", "not_ledger"}

\* json.load of a file that holds []
NotLedger == [json |-> "array"]

\* an exception leaves the call
Raised(exception) == [raised |-> exception]

\* the value is the dict the methods of EmailTracker work on
IsLedger(pe) == "emails" \in DOMAIN pe

\* except (json.JSONDecodeError, IOError): start fresh
_load_history(file, t) ==
    IF ~file.exists THEN EmptyHistory(t)
    ELSE IF "damaged" \notin DOMAIN file THEN json_load(file)
    ELSE IF file.damaged \in {"unreadable", "not_json"} THEN EmptyHistory(t)
    ELSE IF file.damaged = "not_ledger" THEN NotLedger
    ELSE Raised("UnicodeDecodeError")

\* what a call of _save_history meets: the write succeeds, open() fails, or
\* the write fails after open() has emptied the file
SaveOutcomes == {"ok", "open_fails", "write_fails"}

\* faulty variant: the IOError leaves _save_history
save_raises_on_failure(io) == io # "ok"

\* except IOError: the failure is printed
save_raises(io) == FALSE

\* the file after _save_history
_save_history(file, pe, io) ==
    IF io = "ok" THEN json_dump(pe)
    ELSE IF io = "open_fails" THEN file
    ELSE Damaged("not_json")

\* faulty variant: the cleanup does not save what it removed
history_file_after_cleanup_unsaved(file, pe, t) == file

\* the file after _cleanup_old_entries: saved only when entries were removed
history_file_after_cleanup(file, pe, t) ==
    IF emails_to_remove(pe, t) # {} THEN json_dump(_cleanup_old_entries(pe, t)) ELSE file

\* the file after mark_as_processed: saved with the new record, then the
\* cleanup when it is due
history_file_after_mark(pe, t, email_id, email_data, response_sent) ==
    LET Saved(written) ==
            IF CleanupDue(written, t)
            THEN history_file_after_cleanup(json_dump(written), written, t)
            ELSE json_dump(written)
        Write(entry) ==
            Saved([ emails |-> [i \in (DOMAIN pe.emails) \cup {email_id} |->
                                   IF i = email_id THEN entry ELSE pe.emails[i]],
                    last_cleanup |-> pe.last_cleanup ])
    IN  Write([ processed_at  |-> t,
                subject       |-> Truncate(Get(email_data, "subject", <<>>), SubjectSnippetLen),
                from          |-> Get(email_data, "from", <<>>),
                category      |-> Get(email_data, "category", "unknown"),
                response_sent |-> response_sent ])

\* the ledger once mark_as_processed has assigned the record, before it saves
record_written(pe, t, email_id, email_data, response_sent) ==
    [ emails |-> [i \in (DOMAIN pe.emails) \cup {email_id} |->
                     IF i = email_id
                     THEN [ processed_at  |-> t,
                            subject       |-> Truncate(Get(email_data, "subject", <<>>),
                                                       SubjectSnippetLen),
                            from          |-> Get(email_data, "from", <<>>),
                            category      |-> Get(email_data, "category", "unknown"),
                            response_sent |-> response_sent ]
                     ELSE pe.emails[i]],
      last_cleanup |-> pe.last_cleanup ]

\* the file after mark_as_processed when every _save_history of the call
\* meets the outcome io
history_file_after_mark_io(file, pe, t, email_id, email_data, response_sent, io) ==
    LET Cleaned(saved, written) ==
            IF CleanupDue(written, t) /\ emails_to_remove(written, t) # {}
            THEN _save_history(saved, _cleanup_old_entries(written, t), io)
            ELSE saved
        Saved(written) == Cleaned(_save_history(file, written, io), written)
    IN  Saved(record_written(pe, t, email_id, email_data, response_sent))

get_processing_stats(pe) ==
    [ total_processed |-> Cardinality(DOMAIN pe.emails),
      responses_sent  |-> Cardinality({ i \in DOMAIN pe.emails : pe.emails[i].response_sent }),
      categories      |-> [ category \in { pe.emails[i].category : i \in DOMAIN pe.emails } |->
                              Cardinality({ i \in DOMAIN pe.emails :
                                              pe.emails[i].category = category }) ] ]

InWindow(processed_time, t, hours) == processed_time >= t - hours

\* faulty variant: a record made exactly one window ago is not counted
count_sender_emails_open_window(pe, t, sender, hours) ==
    Cardinality({ i \in DOMAIN pe.emails :
                    /\ pe.emails[i].processed_at > t - hours
                    /\ Lower(pe.emails[i].from) = Lower(sender) })

count_sender_emails(pe, t, sender, hours) ==
    LET Count(sender_lower) ==
            Cardinality({ i \in DOMAIN pe.emails :
                            /\ InWindow(pe.emails[i].processed_at, t, hours)
                            /\ Lower(pe.emails[i].from) = sender_lower })
    IN  Count(Lower(sender))

----------------------------------------------------------------------------
(* EmailAutomationSystem *)

max_emails_per_sender == 3

rate_limit_window == 24

DefaultThreshold == Lit(5)

NoId == 0

IdsOf(box) == { Get(e, "id", NoId) : e \in box }

\* faulty variant: the risk check made before the ledger check
should_process_email_risk_first(pe, t, cfg, email_data) ==
    LET email_id     == Get(email_data, "id", NoId)
        from_address == Get(email_data, "from", <<>>)
        RateLimit(sender_count) ==
            IF sender_count >= cfg.max_emails_per_sender
            THEN [proceed |-> FALSE,
                  reason  |-> <<"Rate limit exceeded for sender",
                                cfg.max_emails_per_sender, cfg.rate_limit_window>>]
            ELSE [proceed |-> TRUE, reason |-> <<>>]
        Filter(skip) ==
            IF skip.skip
            THEN [proceed |-> FALSE, reason |-> skip.reason]
            ELSE IF is_processed(pe, email_id)
            THEN [proceed |-> FALSE, reason |-> <<"Already processed">>]
            ELSE RateLimit(count_sender_emails(pe, t, from_address, cfg.rate_limit_window))
    IN  Filter(should_skip_email(email_data, cfg.spam_threshold))

\* faulty variant: the ledger check left out
should_process_email_no_ledger(pe, t, cfg, email_data) ==
    LET from_address == Get(email_data, "from", <<>>)
        RateLimit(sender_count) ==
            IF sender_count >= cfg.max_emails_per_sender
            THEN [proceed |-> FALSE,
                  reason  |-> <<"Rate limit exceeded for sender",
                                cfg.max_emails_per_sender, cfg.rate_limit_window>>]
            ELSE [proceed |-> TRUE, reason |-> <<>>]
        Filter(skip) ==
            IF skip.skip
            THEN [proceed |-> FALSE, reason |-> skip.reason]
            ELSE RateLimit(count_sender_emails(pe, t, from_address, cfg.rate_limit_window))
    IN  Filter(should_skip_email(email_data, cfg.spam_threshold))

\* faulty variant: sender_count > max_emails_per_sender instead of >=
should_process_email_off_by_one(pe, t, cfg, email_data) ==
    LET email_id     == Get(email_data, "id", NoId)
        from_address == Get(email_data, "from", <<>>)
        RateLimit(sender_count) ==
            IF sender_count > cfg.max_emails_per_sender
            THEN [proceed |-> FALSE,
                  reason  |-> <<"Rate limit exceeded for sender",
                                cfg.max_emails_per_sender, cfg.rate_limit_window>>]
            ELSE [proceed |-> TRUE, reason |-> <<>>]
        Filter(skip) ==
            IF skip.skip
            THEN [proceed |-> FALSE, reason |-> skip.reason]
            ELSE RateLimit(count_sender_emails(pe, t, from_address, cfg.rate_limit_window))
    IN  IF is_processed(pe, email_id)
        THEN [proceed |-> FALSE, reason |-> <<"Already processed">>]
        ELSE Filter(should_skip_email(email_data, cfg.spam_threshold))

should_process_email(pe, t, cfg, email_data) ==
    LET email_id     == Get(email_data, "id", NoId)
        from_address == Get(email_data, "from", <<>>)
        RateLimit(sender_count) ==
            IF sender_count >= cfg.max_emails_per_sender
            THEN [proceed |-> FALSE,
                  reason  |-> <<"Rate limit exceeded for sender",
                                cfg.max_emails_per_sender, cfg.rate_limit_window>>]
            ELSE [proceed |-> TRUE, reason |-> <<>>]
        Filter(skip) ==
            IF skip.skip
            THEN [proceed |-> FALSE, reason |-> skip.reason]
            ELSE RateLimit(count_sender_emails(pe, t, from_address, cfg.rate_limit_window))
    IN  IF is_processed(pe, email_id)
        THEN [proceed |-> FALSE, reason |-> <<"Already processed">>]
        ELSE Filter(should_skip_email(email_data, cfg.spam_threshold))

\* re.sub(r'https?://[^\s]+', '[URL REMOVED]', tok) for one word tok: a match
\* starts at the first "http://" or "https://" that at least one more character
\* follows, and runs to the end of the word, since a word holds no white space
UrlPlaceholder == "[URL REMOVED]"

MatchesAt(tok, i) ==
    \/ i + 7 <= Len(tok) /\ SubSeq(tok, i, i + 6) = "http://"
    \/ i + 8 <= Len(tok) /\ SubSeq(tok, i, i + 7) = "https://"

re_sub_url(tok) ==
    IF tok \in DOMAIN Filler \/ \A i \in 1..Len(tok) : ~MatchesAt(tok, i)
    THEN tok
    ELSE LET i == CHOOSE j \in 1..Len(tok) :
                      MatchesAt(tok, j) /\ \A k \in 1..(j - 1) : ~MatchesAt(tok, k)
         IN  SubSeq(tok, 1, i - 1) \o UrlPlaceholder

max_body_length == 5000

TruncationMarker == "... [TRUNCATED]"

\* body[:n], the blank between two words counting as one character
RECURSIVE Cut(_, _)
Cut(s, n) ==
    IF s = <<>> \/ n <= 0 THEN <<>>
    ELSE IF CharLen(Head(s)) >= n THEN <<Prefix(Head(s), n)>>
    ELSE <<Head(s)>> \o Cut(Tail(s), n - CharLen(Head(s)) - 1)

\* the body is measured after the URLs were replaced; the marker is appended
\* to the cut text and is kept here as a word of its own
sanitize_body(body) ==
    LET CutWhenLong(replaced) ==
            IF TextLen(replaced) > max_body_length
            THEN Cut(replaced, max_body_length) \o <<TruncationMarker>>
            ELSE replaced
    IN  CutWhenLong([i \in DOMAIN body |-> re_sub_url(body[i])])

\* sanitize_email_for_response(email_data): a deep copy whose body is rewritten
sanitize_email_for_response(email_data) ==
    [ k \in DOMAIN email_data \cup {"body"} |->
        IF k = "body" THEN sanitize_body(Get(email_data, "body", <<>>))
        ELSE email_data[k] ]

\* What the handler does with the ledger and the collaborators.  gen is what
\* generate_response does ("text", "empty" or "raise"), send what send_email returns.
\*   path      the branch that ended the call
\*   marks     the mark_as_processed calls made, as <<email_data, response_sent>>
\*   generated the e-mail handed to the response generator, if any
\*   sent      send_email was called and returned True
\*   prompt    the e-mail generate_response was called with
Outcome(path, result, verdict, category, marks, generated, attempted, sent, prompt) ==
    [ path |-> path, result |-> result, proceed |-> verdict.proceed,
      reason |-> verdict.reason, category |-> category, marks |-> marks,
      generated |-> generated, send_attempted |-> attempted, sent |-> sent,
      prompt |-> prompt ]

\* generate_response was not called
NoPrompt == [called |-> FALSE]

\* faulty variant: the parsed e-mail is handed on as it is
generator_input_raw(parsed_email) == parsed_email

\* sanitized_email, the first argument of generate_response
generator_input(parsed_email) == sanitize_email_for_response(parsed_email)

NoVerdict == [proceed |-> FALSE, reason |-> <<>>]

\* faulty variant: the category of the parsed e-mail is not looked at
process_single_email_no_spam_check(pe, t, cfg, email_data, gen, send) ==
    LET Respond(verdict, parsed_email) ==
            IF gen = "raise"
            THEN Outcome("exception", FALSE, verdict, parsed_email.category,
                         << <<email_data, FALSE>> >>, TRUE, FALSE, FALSE,
                         generator_input(parsed_email))
            ELSE IF gen = "empty"
            THEN Outcome("no_response", FALSE, verdict, parsed_email.category,
                         <<>>, TRUE, FALSE, FALSE,
                         generator_input(parsed_email))
            ELSE Outcome("responded", send, verdict, parsed_email.category,
                         << <<parsed_email, send>> >>, TRUE, TRUE, send,
                         generator_input(parsed_email))
        Decide(verdict) ==
            IF ~verdict.proceed
            THEN Outcome("skipped", TRUE, verdict, "unknown",
                         << <<email_data, FALSE>> >>, FALSE, FALSE, FALSE, NoPrompt)
            ELSE Respond(verdict, ParseOf(email_data))
    IN  IF "subject" \notin DOMAIN email_data \/ "from" \notin DOMAIN email_data
        THEN \* email_data['subject'] raises KeyError: the except branch
             Outcome("exception", FALSE, NoVerdict, "unknown",
                     << <<email_data, FALSE>> >>, FALSE, FALSE, FALSE, NoPrompt)
        ELSE Decide(should_process_email(pe, t, cfg, email_data))

process_single_email(pe, t, cfg, email_data, gen, send) ==
    LET Respond(verdict, parsed_email) ==
            IF parsed_email.category = "spam"
            THEN Outcome("spam", TRUE, verdict, parsed_email.category,
                         << <<parsed_email, FALSE>> >>, FALSE, FALSE, FALSE, NoPrompt)
            ELSE IF gen = "raise"
            THEN Outcome("exception", FALSE, verdict, parsed_email.category,
                         << <<email_data, FALSE>> >>, TRUE, FALSE, FALSE,
                         generator_input(parsed_email))
            ELSE IF gen = "empty"
            THEN Outcome("no_response", FALSE, verdict, parsed_email.category,
                         <<>>, TRUE, FALSE, FALSE,
                         generator_input(parsed_email))
            ELSE Outcome("responded", send, verdict, parsed_email.category,
                         << <<parsed_email, send>> >>, TRUE, TRUE, send,
                         generator_input(parsed_email))
        Decide(verdict) ==
            IF ~verdict.proceed
            THEN Outcome("skipped", TRUE, verdict, "unknown",
                         << <<email_data, FALSE>> >>, FALSE, FALSE, FALSE, NoPrompt)
            ELSE Respond(verdict, ParseOf(email_data))
    IN  IF "subject" \notin DOMAIN email_data \/ "from" \notin DOMAIN email_data
        THEN \* email_data['subject'] raises KeyError: the except branch
             Outcome("exception", FALSE, NoVerdict, "unknown",
                     << <<email_data, FALSE>> >>, FALSE, FALSE, FALSE, NoPrompt)
        ELSE Decide(should_process_email(pe, t, cfg, email_data))

RECURSIVE ApplyMarks(_, _, _, _)
ApplyMarks(pe, t, email_id, marks) ==
    IF marks = <<>> THEN pe
    ELSE ApplyMarks(mark_as_processed(pe, t, email_id, Head(marks)[1], Head(marks)[2]),
                    t, email_id, Tail(marks))

----------------------------------------------------------------------------
(* State machine *)

MaxNow == 192

\* the instants at which the handler may run.  Their differences are 0 and 24 h
\* (inside and on the edge of the rate window, short of and on the edge of the
\* cleanup period), 168 h (beyond the rate window, on the edge of the retention
\* window) and 192 h (beyond the retention window)
Times == { 0, rate_limit_window, HoursPerDay * max_history_days + rate_limit_window }

\* no automatic cleanup has run yet
NoPass == -1

GenOutcomes == {"text", "empty", "raise"}

NoCall == [op |-> "none"]

\* one pipeline process only
NoPeer == [running |-> 0]

InitLedger ==
    /\ now = 0
    /\ processed_emails = EmptyHistory(0)
    /\ replies = [i \in IdsOf(inbox) |-> 0]
    /\ last = NoCall
    /\ history_file = Absent
    /\ auto_cleanup = NoPass
    /\ dispatched = {}
    /\ peer = NoPeer

\* the limits the configuration may set, up to the shipped default
Limits == 1..max_emails_per_sender

Init ==
    /\ inbox \in Mailboxes
    /\ \E n \in Limits :
          config = [ spam_threshold        |-> DefaultThreshold,
                     max_emails_per_sender |-> n,
                     rate_limit_window     |-> rate_limit_window ]
    /\ InitLedger
    /\ arg = NoCall
    /\ ret = NoCall

\* one call of process_single_email(email_data); io is what the saves of the
\* call meet
ProcessIO(email_data, gen, send, io) ==
    \E out \in {process_single_email(processed_emails, now, config, email_data, gen, send)} :
    \E after \in {ApplyMarks(processed_emails, now, Get(email_data, "id", NoId), out.marks)} :
    LET email_id == Get(email_data, "id", NoId)
        pre      == [ processed    |-> is_processed(processed_emails, email_id),
                      sender_count |-> count_sender_emails(processed_emails, now,
                                           Get(email_data, "from", <<>>), config.rate_limit_window) ]
    IN  \* the collaborators' answers matter only when they are asked
        /\ out.generated \/ gen = "text"
        /\ out.send_attempted \/ send
        /\ processed_emails' = after
        /\ replies' = [ i \in DOMAIN replies |->
                          IF i \in DOMAIN processed_emails.emails /\ i \notin DOMAIN after.emails
                          THEN 0
                          ELSE replies[i] + (IF i = email_id /\ out.sent THEN 1 ELSE 0) ]
        /\ last' = [ op |-> "process_single_email", id |-> email_id, at |-> now, pre |-> pre,
                     path |-> out.path, result |-> out.result, proceed |-> out.proceed,
                     reason |-> out.reason, category |-> out.category,
                     marks |-> Len(out.marks), generated |-> out.generated,
                     send_attempted |-> out.send_attempted, sent |-> out.sent,
                     io |-> io, prompt |-> out.prompt ]
        \* every mark_as_processed saves, and runs the cleanup when it is due
        /\ history_file' = IF out.marks = <<>> THEN history_file
                           ELSE _save_history(history_file, after, io)
        /\ auto_cleanup' = IF out.marks # <<>> /\ CleanupDue(processed_emails, now)
                           THEN now ELSE auto_cleanup
        /\ dispatched' = dispatched \cup
                            (IF out.sent
                             THEN {[id |-> email_id, from |-> Get(email_data, "from", <<>>), at |-> now]}
                             ELSE {})
        /\ UNCHANGED <<inbox, config, now, arg, ret, peer>>

\* one call of process_single_email(email_data) whose saves succeed
Process(email_data, gen, send) == ProcessIO(email_data, gen, send, "ok")

ProcessNext == \E email_data \in inbox : \E gen \in GenOutcomes : \E send \in BOOLEAN :
                  Process(email_data, gen, send)

\* time passes between two calls
Tick ==
    /\ \E t \in Times :
          /\ t > now /\ t <= MaxNow /\ now' = t
          /\ dispatched' = { d \in dispatched : InWindow(d.at, t, rate_limit_window) }
    /\ UNCHANGED <<inbox, config, processed_emails, replies, last, arg, ret,
                   history_file, auto_cleanup, peer>>

Next == ProcessNext \/ Tick

Spec == Init /\ [][Next]_vars

----------------------------------------------------------------------------
(* The filter called directly, and the handler run on any one e-mail *)

InitFilter ==
    /\ \E e \in FilterEmails : \E tenths \in ThresholdTenths :
          /\ arg = [email_data |-> e, spam_threshold |-> Lit(tenths)]
          /\ inbox = {e}
          /\ config = [ spam_threshold        |-> Lit(tenths),
                        max_emails_per_sender |-> max_emails_per_sender,
                        rate_limit_window     |-> rate_limit_window ]
    /\ InitLedger
    /\ ret = NoCall

\* EmailFilter.should_skip_email(email_data, spam_threshold)
CallShouldSkip ==
    /\ ret = NoCall /\ last = NoCall
    /\ ret' = [op |-> "should_skip_email",
               value |-> should_skip_email(arg.email_data, arg.spam_threshold)]
    /\ UNCHANGED <<inbox, config, now, processed_emails, replies, dispatched, peer, last, arg,
                 history_file, auto_cleanup>>

\* EmailFilter.calculate_spam_score(email_data)
CallScore ==
    /\ ret = NoCall /\ last = NoCall
    /\ ret' = [op |-> "calculate_spam_score", value |-> ScoreOf(arg.email_data)]
    /\ UNCHANGED <<inbox, config, now, processed_emails, replies, dispatched, peer, last, arg,
                 history_file, auto_cleanup>>

ProcessArg == ret = NoCall /\ ProcessNext

NextFilter == CallShouldSkip \/ CallScore \/ ProcessArg

SpecFilter == InitFilter /\ [][NextFilter]_vars

----------------------------------------------------------------------------
(* Properties *)

\* a call of process_single_email has returned
Called == last.op = "process_single_email"

\* the e-mail the latest call was made with
LastEmail == CHOOSE e \in inbox : Get(e, "id", NoId) = last.id

\* the e-mail carries the subject and from headers the handler reads
WellFormed(e) == "subject" \in DOMAIN e /\ "from" \in DOMAIN e

\* the records the ledger held for the sender of e inside the rate window when
\* the latest call was made, for an e-mail that had no record of its own then
PriorSenderRecords(e) ==
    { i \in DOMAIN processed_emails.emails \ {last.id} :
        /\ Lower(processed_emails.emails[i].from) = Lower(e.from)
        /\ processed_emails.emails[i].processed_at >= last.at - config.rate_limit_window }

\* the check of the ordered list that decides about e, the first that matches
FirstMatchingCheck(e) ==
    IF last.pre.processed THEN "ledger"
    ELSE IF should_skip_email(e, config.spam_threshold).skip THEN "risk"
    ELSE IF Cardinality(PriorSenderRecords(e)) >= config.max_emails_per_sender THEN "rate"
    ELSE IF ParseOf(e).category = "spam" THEN "spam"
    ELSE "proceed"

\* C1: the verdict of a call is that of the first matching check in the order
\* ledger, risk, rate limit, spam category, proceed: an e-mail already in the
\* ledger is rejected as "Already processed" whatever its risk, a risk-skipped
\* e-mail gets the risk reason whatever the rate limit, and only an e-mail no
\* check matches is handed to the response generator.
C1_FirstMatchWins ==
    Called /\ WellFormed(LastEmail) =>
        LET e     == LastEmail
            check == FirstMatchingCheck(e)
        IN  /\ check = "ledger" =>
                /\ ~last.proceed /\ last.reason = <<"Already processed">>
                /\ last.path = "skipped" /\ ~last.generated
            /\ check = "risk" =>
                /\ ~last.proceed
                /\ last.reason = should_skip_email(e, config.spam_threshold).reason
                /\ last.path = "skipped" /\ ~last.generated
            /\ check = "rate" =>
                /\ ~last.proceed
                /\ last.reason = <<"Rate limit exceeded for sender",
                                   config.max_emails_per_sender, config.rate_limit_window>>
                /\ last.path = "skipped" /\ ~last.generated
            /\ check = "spam" =>
                /\ last.proceed /\ last.path = "spam" /\ ~last.generated
            /\ check = "proceed" =>
                /\ last.proceed /\ last.generated

\* a risk-skipped e-mail from a sender over the rate limit got the risk reason
C1_Witness ==
    /\ Called /\ WellFormed(LastEmail)
    /\ ~last.pre.processed
    /\ Cardinality(PriorSenderRecords(LastEmail)) >= config.max_emails_per_sender
    /\ last.reason # <<>> /\ last.reason[1] = "High spam score"

\* C2: an e-mail whose id is in the ledger is handed neither to the response
\* generator nor to the sender, and no id gets more than one reply while its
\* record is retained.
C2_NoSecondReply ==
    /\ Called /\ last.pre.processed =>
          ~last.generated /\ ~last.send_attempted /\ ~last.sent
    /\ \A i \in DOMAIN replies : replies[i] <= 1

\* an e-mail that was answered is presented again
C2_Witness ==
    /\ Called /\ last.pre.processed
    /\ replies[last.id] = 1
    /\ last.path = "skipped"

\* C3: every call of the handler calls mark_as_processed exactly once and
\* leaves a ledger record for the id when it returns.
C3_MarkedExactlyOnce ==
    Called => last.marks = 1 /\ last.id \in DOMAIN processed_emails.emails

\* C4: the record of an id has response_sent = true exactly when a reply was
\* dispatched for it.
C4_SentIffDispatched ==
    \A i \in DOMAIN processed_emails.emails :
        processed_emails.emails[i].response_sent <=> (replies[i] >= 1)

\* C5: an e-mail with no record of its own that passes the risk checks, while
\* the ledger holds at least max_emails_per_sender records for its sender
\* inside the rate window, is rejected by the rate check, and no reply is
\* generated or sent.
C5_RateLimited ==
    /\ Called /\ WellFormed(LastEmail)
    /\ ~last.pre.processed
    /\ ~should_skip_email(LastEmail, config.spam_threshold).skip
    /\ Cardinality(PriorSenderRecords(LastEmail)) >= config.max_emails_per_sender
    => /\ ~last.proceed
       /\ last.reason = <<"Rate limit exceeded for sender",
                          config.max_emails_per_sender, config.rate_limit_window>>
       /\ ~last.generated /\ ~last.send_attempted /\ ~last.sent

\* the default limit, reached exactly
C5_Witness ==
    /\ Called /\ WellFormed(LastEmail)
    /\ ~last.pre.processed
    /\ ~should_skip_email(LastEmail, config.spam_threshold).skip
    /\ config.max_emails_per_sender = max_emails_per_sender
    /\ Cardinality(PriorSenderRecords(LastEmail)) = max_emails_per_sender
    /\ last.path = "skipped"

\* the address of a from header: what stands between "<" and ">" when the
\* header has the display-name form, the header itself otherwise
AddressOf(from) == IF HasAngleMatch(from) THEN AngleGroup(from) ELSE from

\* the local part of the sender's address is one of the no-reply names
IsNoReplySender(from) ==
    \E l \in NoReplyLocals : StartsWith(Lower(AddressOf(from)), <<l, "@">>)

\* C6: for a sender whose address has a no-reply local part, given bare or
\* behind a display name, should_skip_email returns (true, "No-reply address")
\* and the handler neither generates nor sends a reply.
C6_NoReplySkipped ==
    IsNoReplySender(arg.email_data.from) =>
        /\ ret.op = "should_skip_email" =>
              ret.value = [skip |-> TRUE, reason |-> <<"No-reply address">>]
        /\ Called => ~last.generated /\ ~last.send_attempted /\ ~last.sent

\* the subject holds a payment keyword and the from header a payment domain
IsPaymentReceipt(e) ==
    /\ \E k \in {"receipt", "payment", "invoice", "transaction"} : HasWord(Lower(e.subject), k)
    /\ \E d \in {"paypal", "stripe", "square", "venmo"} : HasWord(Lower(e.from), d)

\* C7: an e-mail with a payment keyword in its subject and a payment domain
\* in its sender is skipped by should_skip_email at every threshold and score,
\* and the handler neither generates nor sends a reply to it.
C7_PaymentNeverAnswered ==
    IsPaymentReceipt(arg.email_data) =>
        /\ ret.op = "should_skip_email" => ret.value.skip /\ ret.value.reason # <<>>
        /\ Called => /\ ~last.proceed /\ last.path = "skipped"
                     /\ ~last.generated /\ ~last.send_attempted /\ ~last.sent
        /\ \A i \in DOMAIN replies : replies[i] = 0

\* a receipt from the whitelisted user@paypal.com, score 0, default threshold
C7_Witness ==
    /\ Called
    /\ arg.email_data.from = Addr("user", <<"paypal", ".", "com">>)
    /\ IsPaymentReceipt(arg.email_data)
    /\ ScoreOf(arg.email_data).score = Lit(0)
    /\ config.spam_threshold = DefaultThreshold
    /\ last.reason = <<"Payment processor email", "paypal">>

\* C8: an e-mail the classifier puts in category spam is never answered,
\* whether or not its score reaches the threshold, and its record has
\* response_sent = false.
C8_SpamNeverAnswered ==
    Called /\ ParseOf(LastEmail).category = "spam" =>
        /\ ~last.generated /\ ~last.send_attempted /\ ~last.sent
        /\ last.id \in DOMAIN processed_emails.emails
        /\ ~processed_emails.emails[last.id].response_sent
        /\ replies[last.id] = 0

\* four spam keywords score 0.4, below the default threshold: the e-mail
\* passes the decision policy and is suppressed after classification
C8_Witness ==
    /\ Called
    /\ last.path = "spam" /\ last.proceed
    /\ ScoreOf(LastEmail).score = Lit(4)
    /\ config.spam_threshold = DefaultThreshold
    /\ ~processed_emails.emails[last.id].response_sent

C10_ScoreInUnitInterval ==
    ret.op = "calculate_spam_score" =>
        /\ FLeq(Lit(0), ret.value.score)
        /\ FLeq(ret.value.score, Lit(10))

\* three attachment types and two shorteners add up to 1.3: the score is 1.0
C10_Witness ==
    /\ ret.op = "calculate_spam_score"
    /\ arg.email_data.body = <<".exe", ".zip", ".bat", "at", "bit.ly", "or", "goo.gl">>
    /\ Len(ret.value.reasons) >= 5
    /\ ret.value.score = Lit(10)

----------------------------------------------------------------------------
(* The tracker called directly *)

TrackerIds == {1, 2}

\* what the handler passes as email_data: a parsed e-mail, or the raw one
TrackerData ==
    { [from |-> FromAB, subject |-> <<"opening", "hours">>, category |-> "customer_inquiry"],
      [from |-> Named("Bob", FromAB), subject |-> <<"Your", "Receipt">>] }

MaxTrackerNow == 216

\* differences of 0, 12 and 24 h around the cleanup period, of 168 h on the
\* edge of the retention window, of 180 h and more beyond it
TrackerTimes == { 0, 12, 24, 192, 204, 216 }

InitTracker ==
    /\ inbox = {}
    /\ config = [ spam_threshold        |-> DefaultThreshold,
                  max_emails_per_sender |-> max_emails_per_sender,
                  rate_limit_window     |-> rate_limit_window ]
    /\ InitLedger
    /\ arg = NoCall
    /\ ret = NoCall

\* EmailTracker.mark_as_processed(email_id, email_data, response_sent)
Mark(email_id, email_data, response_sent) ==
    /\ processed_emails' =
          mark_as_processed(processed_emails, now, email_id, email_data, response_sent)
    /\ history_file' =
          history_file_after_mark(processed_emails, now, email_id, email_data, response_sent)
    /\ auto_cleanup' = IF CleanupDue(processed_emails, now) THEN now ELSE auto_cleanup
    /\ last' = [ op |-> "mark_as_processed", id |-> email_id, at |-> now,
                 email_data |-> email_data, response_sent |-> response_sent,
                 pre |-> processed_emails,
                 cleanup_ran |-> CleanupDue(processed_emails, now),
                 prev_auto_cleanup |-> auto_cleanup ]
    /\ UNCHANGED <<inbox, config, now, replies, dispatched, peer, arg, ret>>

MarkNext == \E email_id \in TrackerIds, email_data \in TrackerData, response_sent \in BOOLEAN :
                Mark(email_id, email_data, response_sent)

\* EmailTracker._cleanup_old_entries()
Cleanup ==
    /\ processed_emails' = _cleanup_old_entries(processed_emails, now)
    /\ history_file' = history_file_after_cleanup(history_file, processed_emails, now)
    /\ last' = [op |-> "_cleanup_old_entries", at |-> now, pre |-> processed_emails]
    /\ UNCHANGED <<inbox, config, now, replies, dispatched, peer, arg, ret, auto_cleanup>>

\* a new EmailTracker on the same file: __init__ runs _load_history
Load ==
    /\ processed_emails' = _load_history(history_file, now)
    /\ last' = [op |-> "_load_history", at |-> now, pre |-> processed_emails]
    /\ UNCHANGED <<inbox, config, now, replies, dispatched, peer, arg, ret, history_file, auto_cleanup>>

TickTracker ==
    /\ \E t \in TrackerTimes : t > now /\ t <= MaxTrackerNow /\ now' = t
    /\ UNCHANGED <<inbox, config, processed_emails, replies, dispatched, peer, last, arg, ret,
                   history_file, auto_cleanup>>

NextTracker == MarkNext \/ Cleanup \/ Load \/ TickTracker

SpecTracker == InitTracker /\ [][NextTracker]_vars

----------------------------------------------------------------------------
(* The tracker on a store that may be damaged and whose writes may fail *)

\* no EmailTracker has been constructed
NoTracker == [tracker |-> FALSE]

StorageInbox == {E1}

\* the ledger a former run left in the file
StoredLedger ==
    [ emails |-> (1 :> [ processed_at |-> 0, subject |-> <<"opening", "hours">>,
                         from |-> FromAB, category |-> "customer_inquiry",
                         response_sent |-> TRUE ]),
      last_cleanup |-> 0 ]

StartFiles == {Absent, json_dump(StoredLedger)} \cup { Damaged(kind) : kind \in DamageKinds }

InitStorage ==
    /\ inbox = StorageInbox
    /\ config = [ spam_threshold        |-> DefaultThreshold,
                  max_emails_per_sender |-> max_emails_per_sender,
                  rate_limit_window     |-> rate_limit_window ]
    /\ now = 0
    /\ processed_emails = NoTracker
    /\ replies = [i \in IdsOf(inbox) |-> 0]
    /\ last = NoCall
    /\ history_file \in StartFiles
    /\ auto_cleanup = NoPass
    /\ dispatched = {}
    /\ peer = NoPeer
    /\ arg = NoCall
    /\ ret = NoCall

\* EmailTracker.__init__: processed_emails = _load_history()
Construct ==
    /\ processed_emails = NoTracker /\ last = NoCall
    /\ \E loaded \in {_load_history(history_file, now)} :
          /\ processed_emails' = IF "raised" \in DOMAIN loaded THEN NoTracker ELSE loaded
          /\ last' = [op |-> "__init__", at |-> now, file |-> history_file,
                      raised |-> "raised" \in DOMAIN loaded]
    /\ UNCHANGED <<inbox, config, now, replies, dispatched, peer, arg, ret, history_file, auto_cleanup>>

\* EmailTracker.mark_as_processed(email_id, email_data, response_sent) with
\* saves that meet io
MarkIO(email_id, email_data, response_sent, io) ==
    /\ processed_emails # NoTracker
    /\ IF ~IsLedger(processed_emails)
       THEN \* self.processed_emails["emails"] = {} on a list: TypeError
            /\ last' = [ op |-> "mark_as_processed", id |-> email_id, at |-> now,
                         email_data |-> email_data, response_sent |-> response_sent,
                         io |-> io, pre |-> processed_emails, raised |-> TRUE,
                         cleanup_ran |-> FALSE, prev_auto_cleanup |-> auto_cleanup ]
            /\ UNCHANGED <<processed_emails, history_file, auto_cleanup>>
       ELSE IF save_raises(io)
       THEN /\ processed_emails' =
                  record_written(processed_emails, now, email_id, email_data, response_sent)
            /\ history_file' = _save_history(history_file, processed_emails', io)
            /\ last' = [ op |-> "mark_as_processed", id |-> email_id, at |-> now,
                         email_data |-> email_data, response_sent |-> response_sent,
                         io |-> io, pre |-> processed_emails, raised |-> TRUE,
                         cleanup_ran |-> FALSE, prev_auto_cleanup |-> auto_cleanup ]
            /\ UNCHANGED auto_cleanup
       ELSE /\ processed_emails' =
                  mark_as_processed(processed_emails, now, email_id, email_data, response_sent)
            /\ history_file' =
                  history_file_after_mark_io(history_file, processed_emails, now, email_id,
                                             email_data, response_sent, io)
            /\ auto_cleanup' = IF CleanupDue(processed_emails, now) THEN now ELSE auto_cleanup
            /\ last' = [ op |-> "mark_as_processed", id |-> email_id, at |-> now,
                         email_data |-> email_data, response_sent |-> response_sent,
                         io |-> io, pre |-> processed_emails, raised |-> FALSE,
                         cleanup_ran |-> CleanupDue(processed_emails, now),
                         prev_auto_cleanup |-> auto_cleanup ]
    /\ UNCHANGED <<inbox, config, now, replies, dispatched, peer, arg, ret>>

MarkStorage ==
    \E email_id \in TrackerIds, io \in SaveOutcomes :
        MarkIO(email_id, [E2 EXCEPT !.from = Named("Bob", FromAB)], FALSE, io)

\* is_processed, count_sender_emails or get_processing_stats called from outside
Query ==
    /\ processed_emails # NoTracker
    /\ \E op \in {"is_processed", "count_sender_emails", "get_processing_stats"} :
       \E email_id \in IF op = "is_processed" THEN TrackerIds ELSE {1},
          sender \in IF op = "count_sender_emails"
                     THEN {FromAB, FromABUpper, Named("Bob", FromABUpper)} ELSE {FromAB} :
          last' = IF ~IsLedger(processed_emails)
                  THEN \* self.processed_emails.get on a list: AttributeError
                       [op |-> op, at |-> now, raised |-> TRUE]
                  ELSE [ op |-> op, at |-> now, raised |-> FALSE,
                         value |-> IF op = "is_processed"
                                   THEN <<email_id, is_processed(processed_emails, email_id)>>
                                   ELSE IF op = "count_sender_emails"
                                   THEN <<sender,
                                          count_sender_emails(processed_emails, now, sender,
                                                              rate_limit_window)>>
                                   ELSE <<get_processing_stats(processed_emails)>> ]
    /\ UNCHANGED <<inbox, config, now, processed_emails, replies, dispatched, peer, arg, ret,
                   history_file, auto_cleanup>>

\* the handler run on a tracker whose saves may fail
ProcessStorage ==
    /\ processed_emails # NoTracker /\ IsLedger(processed_emails)
    /\ \E email_data \in inbox, gen \in GenOutcomes, send \in BOOLEAN, io \in SaveOutcomes :
          ProcessIO(email_data, gen, send, io)

NextStorage == Construct \/ MarkStorage \/ Query \/ ProcessStorage \/ Tick

SpecStorage == InitStorage /\ [][NextStorage]_vars

----------------------------------------------------------------------------
(* The classifying methods of EmailProcessor called directly *)

Sentiments == {"positive", "negative", "neutral"}

\* one e-mail handed to the classifying methods of EmailProcessor
InitClassify ==
    /\ \E e \in ClassifyEmails :
          /\ arg = [email_data |-> e, spam_threshold |-> DefaultThreshold]
          /\ inbox = {e}
    /\ config = [ spam_threshold        |-> DefaultThreshold,
                  max_emails_per_sender |-> max_emails_per_sender,
                  rate_limit_window     |-> rate_limit_window ]
    /\ InitLedger
    /\ ret = NoCall

\* EmailProcessor._categorize_email(email_data)
CallCategorize ==
    /\ ret = NoCall
    /\ ret' = [op |-> "_categorize_email", value |-> _categorize_email(arg.email_data)]
    /\ UNCHANGED <<inbox, config, now, processed_emails, replies, dispatched, peer, last, arg,
                 history_file, auto_cleanup>>

\* EmailProcessor._analyze_sentiment(email_data)
CallSentiment ==
    /\ ret = NoCall
    /\ ret' = [op |-> "_analyze_sentiment", value |-> _analyze_sentiment(arg.email_data)]
    /\ UNCHANGED <<inbox, config, now, processed_emails, replies, dispatched, peer, last, arg,
                 history_file, auto_cleanup>>

\* EmailProcessor._determine_priority(email_data, category, sentiment)
CallPriority ==
    /\ ret = NoCall
    /\ \E category \in Range(priority_order), sentiment \in Sentiments :
          ret' = [op |-> "_determine_priority", category |-> category, sentiment |-> sentiment,
                  value |-> _determine_priority(arg.email_data, category, sentiment)]
    /\ UNCHANGED <<inbox, config, now, processed_emails, replies, dispatched, peer, last, arg,
                 history_file, auto_cleanup>>

\* EmailProcessor.parse_email_for_response(email_data)
CallParse ==
    /\ ret = NoCall
    /\ ret' = [op |-> "parse_email_for_response",
               value |-> parse_email_for_response(arg.email_data)]
    /\ UNCHANGED <<inbox, config, now, processed_emails, replies, dispatched, peer, last, arg,
                 history_file, auto_cleanup>>

NextClassify == CallCategorize \/ CallSentiment \/ CallPriority \/ CallParse

SpecClassify == InitClassify /\ [][NextClassify]_vars

\* more than half of the characters of the subject are upper-case letters
MajorityUpper(subject) == subject # <<>> /\ 2 * CapsCount(subject) > TextLen(subject)

\* acc + inc + ... + inc, k times, in binary64
RECURSIVE FAddTimes(_, _, _)
FAddTimes(acc, k, inc) == IF k = 0 THEN acc ELSE FAddTimes(FAdd(acc, inc), k - 1, inc)

\* the sum, in binary64 and in the order of the list, of the contributions the
\* score is made of: suspicious sender, spam keywords, capitalization,
\* attachment types, URL shorteners
ContributionSum(e) ==
    LET Shorteners(acc) ==
            FAddTimes(acc, Cardinality({ x \in Range(url_shorteners) : HasWord(Lower(e.body), x) }),
                      Lit(2))
        Extensions(acc) ==
            Shorteners(FAddTimes(acc,
                Cardinality({ x \in Range(suspicious_extensions) : HasWord(Lower(e.body), x) }),
                Lit(3)))
        Capitals(acc) ==
            Extensions(IF MajorityUpper(e.subject) THEN FAdd(acc, Lit(2)) ELSE acc)
        Keywords(acc, n) ==
            Capitals(IF n > 0 THEN FAdd(acc, FMin(Lit(5), FMulInt(n, Lit(1)))) ELSE acc)
    IN  Keywords(IF is_suspicious_sender(Lower(e.from)) THEN Lit(5) ELSE Lit(0),
                 Cardinality({ k \in Range(SPAM_KEYWORDS) :
                                 Contains(Lower(e.subject), k) \/ Contains(Lower(e.body), k) }))

\* C11: the score calculate_spam_score returns is min(1.0, S), S the sum of
\* the contributions for a suspicious sender, spam keywords, a majority
\* upper-case subject, attachment types and URL shorteners, and of nothing else.
C11_ScoreIsReference ==
    ret.op = "calculate_spam_score" =>
        ret.value.score = FMin(Lit(10), ContributionSum(arg.email_data))

\* C12: the score carries the excessive-capitalization reason, and its 0.2,
\* exactly when more than half of the characters of the subject are upper-case.
C12_CapitalizationCounted ==
    ret.op = "calculate_spam_score" =>
        (MajorityUpper(arg.email_data.subject)
            <=> <<"Excessive capitalization">> \in Range(ret.value.reasons))

\* the domain of the sender's address is an entry of the whitelist
WhitelistedSender(from) ==
    \E d \in DOMAIN WHITELIST_DOMAINS : EndsWith(Lower(AddressOf(from)), WHITELIST_DOMAINS[d])

\* the e-mail with the same subject and body sent from a look-alike domain
LookAlike(e) == [e EXCEPT !.from = Addr("user", <<"paypal", ".", "security-alert", ".", "com">>)]

\* a whitelisted sender never gets the suspicious-sender reason
NoSuspicionOnWhitelist ==
    ret.op = "calculate_spam_score" /\ WhitelistedSender(arg.email_data.from) =>
        <<"Suspicious sender pattern">> \notin Range(ret.value.reasons)

\* C13 as stated: a whitelisted sender never gets the suspicious-sender
\* contribution, and user@paypal.com always scores strictly lower than
\* user@paypal.security-alert.com with the same subject and body.
C13_WhitelistStrictlyLower ==
    /\ NoSuspicionOnWhitelist
    /\ ret.op = "calculate_spam_score"
       /\ arg.email_data.from = Addr("user", <<"paypal", ".", "com">>)
       => /\ FLeq(ret.value.score, ScoreOf(LookAlike(arg.email_data)).score)
          /\ ret.value.score # ScoreOf(LookAlike(arg.email_data)).score

\* C13 amended: a whitelisted sender never gets the suspicious-sender
\* contribution; user@paypal.com never scores higher than the look-alike
\* sender, and scores strictly lower unless its own score is already 1.0.
C13_WhitelistLower ==
    /\ NoSuspicionOnWhitelist
    /\ ret.op = "calculate_spam_score"
       /\ arg.email_data.from = Addr("user", <<"paypal", ".", "com">>)
       => /\ FLeq(ret.value.score, ScoreOf(LookAlike(arg.email_data)).score)
          /\ ret.value.score # Lit(10) =>
                ret.value.score # ScoreOf(LookAlike(arg.email_data)).score

\* user@paypal.com matches the paypal pattern, is whitelisted, and scores lower
C13_Witness ==
    /\ ret.op = "calculate_spam_score"
    /\ arg.email_data.from = Addr("user", <<"paypal", ".", "com">>)
    /\ MatchesBrand(Lower(arg.email_data.from), "paypal")
    /\ <<"Suspicious sender pattern">> \in Range(ScoreOf(LookAlike(arg.email_data)).reasons)
    /\ ret.value.score # ScoreOf(LookAlike(arg.email_data)).score

\* subject and body of the e-mail handed to the classifier, lower-cased
ClassifyText ==
    Lower(Get(arg.email_data, "subject", <<>>)) \o Lower(Get(arg.email_data, "body", <<>>))

\* the text contains at least one keyword of the category
HasKeywordOf(category, text) ==
    \E c \in DOMAIN CategoryNames :
        CategoryNames[c] = category /\ \E k \in Range(categories[c]) : Contains(text, k)

\* the categories in the order the claim ranks them
CategoryRank ==
    << "urgent_request", "complaint", "billing_question", "product_support",
       "feature_request", "spam", "general_feedback" >>

\* the set of categories the e-mail has a keyword of
MatchedCategories(e) ==
    { c \in Range(CategoryRank) :
        HasKeywordOf(c, Lower(Get(e, "subject", <<>>)) \o Lower(Get(e, "body", <<>>))) }

\* C14: the category is the first of urgent_request, complaint,
\* billing_question, product_support, feature_request, spam, general_feedback
\* that has a keyword in the lower-cased subject and body, whichever set of
\* categories matches; with no match it is customer_inquiry with no keywords.
C14_FirstCategoryInRank ==
    ret.op = "_categorize_email" =>
        IF \A i \in DOMAIN CategoryRank : ~HasKeywordOf(CategoryRank[i], ClassifyText)
        THEN ret.value = [category |-> "customer_inquiry", keywords |-> <<>>]
        ELSE \E i \in DOMAIN CategoryRank :
                /\ ret.value.category = CategoryRank[i]
                /\ HasKeywordOf(CategoryRank[i], ClassifyText)
                /\ \A j \in 1..(i - 1) : ~HasKeywordOf(CategoryRank[j], ClassifyText)

\* all seven categories match and urgent_request wins; every set of categories
\* is the matched set of some e-mail of the model
C14_Witness ==
    /\ ret.op = "_categorize_email"
    /\ \A i \in DOMAIN CategoryRank : HasKeywordOf(CategoryRank[i], ClassifyText)
    /\ ret.value.category = "urgent_request"
    /\ \A S \in SUBSET Range(CategoryRank) :
          \E e \in CategoryEmails : MatchedCategories(e) = S

\* the priority the claim gives to a category and a sentiment
PriorityRule(category, sentiment) ==
    IF category = "complaint" \/ category = "urgent_request" THEN "high"
    ELSE IF category = "product_support" \/ category = "billing_question"
            \/ sentiment = "negative" THEN "medium"
    ELSE "low"

\* C15: for each of the eight categories and three sentiments the priority is
\* high iff the category is complaint or urgent_request, otherwise medium iff
\* it is product_support or billing_question or the sentiment is negative,
\* otherwise low.
C15_PriorityOfCategoryAndSentiment ==
    /\ ret.op = "_determine_priority" =>
          /\ ret.value \in {"high", "medium", "low"}
          /\ ret.value = "high" <=> ret.category \in {"complaint", "urgent_request"}
          /\ ret.value = "medium" <=>
                /\ ret.category \notin {"complaint", "urgent_request"}
                /\ \/ ret.category \in {"product_support", "billing_question"}
                   \/ ret.sentiment = "negative"
    /\ ret.op = "parse_email_for_response" =>
          ret.value.priority = PriorityRule(ret.value.category, ret.value.sentiment)

\* a complaint read with negative sentiment is high, not medium
C15_Witness ==
    /\ ret.op = "_determine_priority"
    /\ ret.category = "complaint"
    /\ ret.sentiment = "negative"
    /\ ret.value = "high"

\* the number of words of the list that occur in the text
WordCount(words, text) == Cardinality({ w \in Range(words) : Contains(text, w) })

\* C16: the sentiment is positive when more positive than negative words
\* occur, negative when more negative than positive words occur, and neutral
\* on every tie, zero against zero included.
C16_SentimentByCount ==
    ret.op = "_analyze_sentiment" =>
        /\ WordCount(positive_words, ClassifyText) > WordCount(negative_words, ClassifyText)
              => ret.value = "positive"
        /\ WordCount(negative_words, ClassifyText) > WordCount(positive_words, ClassifyText)
              => ret.value = "negative"
        /\ WordCount(positive_words, ClassifyText) = WordCount(negative_words, ClassifyText)
              => ret.value = "neutral"

\* a tie of two against two
C16_Witness ==
    /\ ret.op = "_analyze_sentiment"
    /\ WordCount(positive_words, ClassifyText) = 2
    /\ WordCount(negative_words, ClassifyText) = 2
    /\ ret.value = "neutral"

\* the latest call was mark_as_processed for an id that already had a record
MarkedAgain ==
    last.op = "mark_as_processed" /\ last.id \in DOMAIN last.pre.emails

\* the record of the id is the one the latest mark_as_processed call wrote
RecordIsOfLastCall ==
    /\ last.id \in DOMAIN processed_emails.emails
    /\ processed_emails.emails[last.id].category = Get(last.email_data, "category", "unknown")
    /\ processed_emails.emails[last.id].from = Get(last.email_data, "from", <<>>)
    /\ processed_emails.emails[last.id].subject =
          Truncate(Get(last.email_data, "subject", <<>>), SubjectSnippetLen)
    /\ processed_emails.emails[last.id].response_sent = last.response_sent
    /\ DOMAIN processed_emails.emails \subseteq DOMAIN last.pre.emails \cup {last.id}

\* C17 as stated: marking an id a second time leaves one record for it, with
\* the category, sender, subject and response_sent of the second call, and
\* leaves the record of every other id as it was.
C17_UpsertLeavesOthers ==
    MarkedAgain =>
        /\ RecordIsOfLastCall
        /\ \A other \in DOMAIN last.pre.emails \ {last.id} :
              /\ other \in DOMAIN processed_emails.emails
              /\ processed_emails.emails[other] = last.pre.emails[other]

\* C17 amended: marking an id a second time leaves one record for it, with the
\* data of the second call; the record of every other id is as it was, or is
\* gone because the cleanup the call ran found it older than the retention
\* window.
C17_UpsertLeavesOthersButExpired ==
    MarkedAgain =>
        /\ RecordIsOfLastCall
        /\ \A other \in DOMAIN last.pre.emails \ {last.id} :
              IF other \in DOMAIN processed_emails.emails
              THEN processed_emails.emails[other] = last.pre.emails[other]
              ELSE /\ last.cleanup_ran
                   /\ last.pre.emails[other].processed_at
                        < last.at - HoursPerDay * max_history_days

\* a second call with other data than the first, beside another id's record
C17_Witness ==
    /\ MarkedAgain
    /\ last.pre.emails[last.id].category # processed_emails.emails[last.id].category
    /\ last.pre.emails[last.id].from # processed_emails.emails[last.id].from
    /\ last.pre.emails[last.id].subject # processed_emails.emails[last.id].subject
    /\ last.pre.emails[last.id].response_sent # processed_emails.emails[last.id].response_sent
    /\ \E other \in DOMAIN processed_emails.emails : other # last.id

\* C18: after the cleanup every record older than now minus the retention
\* window is gone, every record newer than that is there unchanged, and no
\* other record was removed.
C18_CleanupRemovesExpiredOnly ==
    last.op = "_cleanup_old_entries" =>
        /\ DOMAIN processed_emails.emails \subseteq DOMAIN last.pre.emails
        /\ \A email_id \in DOMAIN last.pre.emails :
              IF last.pre.emails[email_id].processed_at
                    < last.at - HoursPerDay * max_history_days
              THEN email_id \notin DOMAIN processed_emails.emails
              ELSE /\ email_id \in DOMAIN processed_emails.emails
                   /\ processed_emails.emails[email_id] = last.pre.emails[email_id]

\* a record 192 h old is removed beside one exactly 168 h old, which stays
C18_Witness ==
    /\ last.op = "_cleanup_old_entries"
    /\ \E gone \in DOMAIN last.pre.emails :
          /\ gone \notin DOMAIN processed_emails.emails
          /\ last.pre.emails[gone].processed_at < last.at - HoursPerDay * max_history_days
    /\ \E kept \in DOMAIN processed_emails.emails :
          processed_emails.emails[kept].processed_at = last.at - HoursPerDay * max_history_days

\* C19: once mark_as_processed has run the cleanup, last_cleanup records that
\* pass and no mark_as_processed call runs it again within the next 24 hours,
\* whether or not the pass removed an entry.
C19_AutomaticCleanupOncePerDay ==
    last.op = "mark_as_processed" /\ last.cleanup_ran =>
        /\ processed_emails.last_cleanup = last.at
        /\ last.prev_auto_cleanup # NoPass => last.at - last.prev_auto_cleanup >= HoursPerDay

\* what a new tracker on the same file would hold
Reloaded == _load_history(history_file, now)

\* C20: after mark_as_processed and cleanup calls the file holds the ledger
\* the tracker holds: every call that changed the ledger saved it, and a
\* tracker loaded from the file has the same records and the same
\* last_cleanup.
C20_FileEqualsLedger ==
    /\ last.op \in {"mark_as_processed", "_cleanup_old_entries"}
       /\ (last.op = "mark_as_processed" \/ last.pre # processed_emails)
       => history_file = json_dump(processed_emails)
    /\ Reloaded.emails = processed_emails.emails
    /\ history_file.exists => Reloaded = processed_emails

\* a tracker is loaded from a file written by two marks and a cleanup that
\* removed one of the two records
C20_Witness ==
    /\ last.op = "_load_history"
    /\ processed_emails = last.pre
    /\ processed_emails.last_cleanup > 0
    /\ Cardinality(DOMAIN processed_emails.emails) = 1
    /\ history_file = json_dump(processed_emails)

\* the latest call was mark_as_processed on a ledger, and its save failed
MarkedWithoutSave ==
    last.op = "mark_as_processed" /\ IsLedger(last.pre) /\ last.io # "ok"

\* C21: when the write to the file fails, mark_as_processed does not raise,
\* the ledger in memory holds the new record, is_processed and
\* count_sender_emails see it, and the handler that made the call ends as it
\* does when the write succeeds.
C21_SaveFailureSwallowed ==
    /\ MarkedWithoutSave =>
          /\ ~last.raised
          /\ is_processed(processed_emails, last.id)
          /\ processed_emails.emails[last.id].processed_at = last.at
          /\ count_sender_emails(processed_emails, last.at,
                                 Get(last.email_data, "from", <<>>), rate_limit_window)
               = 1 + Cardinality({ i \in DOMAIN last.pre.emails \ {last.id} :
                        /\ last.pre.emails[i].processed_at >= last.at - rate_limit_window
                        /\ Lower(last.pre.emails[i].from)
                             = Lower(Get(last.email_data, "from", <<>>)) })
    /\ last.op = "process_single_email" /\ last.io # "ok" /\ last.marks > 0 =>
          /\ is_processed(processed_emails, last.id)
          /\ last.path = "exception" => last.generated
          /\ last.path = "skipped" => last.result
          /\ last.path = "responded" => last.result = last.sent

\* a save failed after open() had emptied the file; the record is in memory only
C21_Witness ==
    /\ MarkedWithoutSave
    /\ last.io = "write_fails"
    /\ history_file = Damaged("not_json")
    /\ is_processed(processed_emails, last.id)
    /\ last.id \notin DOMAIN last.pre.emails

\* the file is absent, unreadable or does not hold a ledger
StoreUnusable(file) == ~file.exists \/ "damaged" \in DOMAIN file

\* C22: when the file is absent, unreadable or corrupt, the tracker starts
\* with the empty ledger whose last_cleanup is the time of loading, and no
\* later call of is_processed, mark_as_processed, count_sender_emails or
\* get_processing_stats raises.
C22_LoadNeverFails ==
    /\ last.op = "__init__" /\ StoreUnusable(last.file) =>
          ~last.raised /\ processed_emails = EmptyHistory(last.at)
    /\ last.op \in {"is_processed", "mark_as_processed", "count_sender_emails",
                    "get_processing_stats"} => ~last.raised

\* the records of the ledger whose address is the sender's, letter case
\* aside, and that were processed within the trailing window
RecordsOfAddress(pe, t, sender, hours) ==
    { i \in DOMAIN pe.emails :
        /\ Lower(AddressOf(pe.emails[i].from)) = Lower(AddressOf(sender))
        /\ pe.emails[i].processed_at >= t - hours }

\* C23: count_sender_emails returns the number of records, replied to or not,
\* whose address equals the sender's address ignoring letter case and any
\* display name, and whose processed_at lies within the trailing window.
C23_CountByAddress ==
    last.op = "count_sender_emails" /\ ~last.raised =>
        last.value[2] = Cardinality(RecordsOfAddress(processed_emails, last.at, last.value[1],
                                                     rate_limit_window))

----------------------------------------------------------------------------
(* Sanitizing the e-mail the response generator is given *)

BodyTwoUrls == <<"see", "http://a.example", "and", "https://b.example/x">>

SanitizeBodies ==
    { <<>>, BodyQuestion, BodyTwoUrls,
      <<"see:http://a.example">>,
      <<"HTTP://A.EXAMPLE">>,
      <<"visit", "www.c.example">>,
      <<"x*5000">>,
      <<"x*5001">>,
      <<"x*4990", "http://a.example">>,
      <<"x*4990", "http://a">>,
      <<"x*4981", "https://b.example/x">> }

WithoutBody(e) == [k \in DOMAIN e \ {"body"} |-> e[k]]

SanitizeEmails ==
    LET Full == { Email(1, from, subject, body) :
                    from \in {FromAB, Named("Bob", FromAB)},
                    subject \in {<<"opening", "hours">>, <<>>},
                    body \in SanitizeBodies }
    IN  Full \cup { WithoutBody(e) : e \in Full }

InitSanitize ==
    /\ \E e \in SanitizeEmails :
          /\ arg = [email_data |-> e]
          /\ inbox = {e}
    /\ config = [ spam_threshold        |-> DefaultThreshold,
                  max_emails_per_sender |-> max_emails_per_sender,
                  rate_limit_window     |-> rate_limit_window ]
    /\ InitLedger
    /\ ret = NoCall

\* EmailFilter.sanitize_email_for_response(email_data), on the e-mail as fetched
\* and on the parsed e-mail the handler calls it with
CallSanitize ==
    /\ ret = NoCall
    /\ \E email_data \in {arg.email_data, ParseOf(arg.email_data)} :
          ret' = [ op |-> "sanitize_email_for_response",
                   email_data |-> email_data,
                   value |-> sanitize_email_for_response(email_data) ]
    /\ UNCHANGED <<inbox, config, now, processed_emails, replies, dispatched, peer, last, arg,
                 history_file, auto_cleanup>>

ProcessSanitize == ProcessNext

NextSanitize == CallSanitize \/ ProcessSanitize \/ Tick

SpecSanitize == InitSanitize /\ [][NextSanitize]_vars

\* the words of the model that are a URL or hold one, and what is left of each
\* when the URL in it is replaced
UrlWords ==
    ("http://a.example" :> UrlPlaceholder) @@ ("https://b.example/x" :> UrlPlaceholder)
    @@ ("http://a" :> UrlPlaceholder) @@ ("see:http://a.example" :> "see:" \o UrlPlaceholder)
    @@ ("HTTP://A.EXAMPLE" :> UrlPlaceholder) @@ ("www.c.example" :> UrlPlaceholder)
    @@ ("bit.ly" :> UrlPlaceholder)

AllUrlsReplaced(body) ==
    [i \in DOMAIN body |-> IF body[i] \in DOMAIN UrlWords THEN UrlWords[body[i]] ELSE body[i]]

\* the first 5000 characters and the marker, for a text longer than that
CutAt5000(text) ==
    IF TextLen(text) > max_body_length
    THEN Cut(text, max_body_length) \o <<TruncationMarker>>
    ELSE text

\* C24: sanitize_email_for_response returns a copy whose body is the given body
\* with every URL replaced by the placeholder and, when longer than 5000
\* characters, cut to its first 5000 characters followed by the truncation
\* marker; every other field is the given one.
C24_SanitizeReplacesAllUrls ==
    ret.op = "sanitize_email_for_response" =>
        /\ ret.value.body = CutAt5000(AllUrlsReplaced(Get(ret.email_data, "body", <<>>)))
        /\ \A i \in DOMAIN ret.value.body : ret.value.body[i] \notin DOMAIN UrlWords
        /\ \A k \in DOMAIN ret.email_data \ {"body"} : ret.value[k] = ret.email_data[k]
        /\ DOMAIN ret.value = DOMAIN ret.email_data \cup {"body"}

\* the same for the URLs written with a lower-case http:// or https://
LowerSchemeOnly(body) ==
    \A i \in DOMAIN body : body[i] \notin {"HTTP://A.EXAMPLE", "www.c.example", "bit.ly"}

C24_SanitizeLowerScheme ==
    ret.op = "sanitize_email_for_response"
    /\ LowerSchemeOnly(Get(ret.email_data, "body", <<>>)) =>
        /\ ret.value.body = CutAt5000(AllUrlsReplaced(Get(ret.email_data, "body", <<>>)))
        /\ \A k \in DOMAIN ret.email_data \ {"body"} : ret.value[k] = ret.email_data[k]

C24_CutInsidePlaceholder ==
    /\ ret.op = "sanitize_email_for_response"
    /\ Get(ret.email_data, "body", <<>>) = <<"x*4990", "http://a">>
    /\ ret.value.body = <<"x*4990", "[URL REMO", TruncationMarker>>

\* no word of the text holds a URL that the pattern of sanitize matches
NoMatchLeft(text) ==
    \A i \in DOMAIN text :
        text[i] \in DOMAIN Filler \/ \A j \in 1..Len(text[i]) : ~MatchesAt(text[i], j)

\* C25: in the handler the response generator is called only for an e-mail that
\* passed the filter, and what it is called with is the output of sanitize for
\* the parsed e-mail: no http(s) URL is left in the body it sees and the body
\* is no longer than 5000 characters and the marker.
C25_GeneratorGetsSanitized ==
    last.op = "process_single_email" =>
        /\ ~last.generated => last.prompt = NoPrompt
        /\ last.generated =>
              /\ last.proceed
              /\ last.prompt = sanitize_email_for_response(ParseOf(LastEmail))
              /\ NoMatchLeft(last.prompt.body)
              /\ TextLen(last.prompt.body) <= max_body_length + 1 + Len(TruncationMarker)

C25_Witness ==
    /\ last.op = "process_single_email" /\ last.generated
    /\ Get(LastEmail, "body", <<>>) = BodyTwoUrls
    /\ last.prompt.body = <<"see", UrlPlaceholder, "and", UrlPlaceholder>>

----------------------------------------------------------------------------
(* E-mails with missing or empty headers *)

TextFields == {"subject", "body", "from"}

\* subject, body or from is absent or empty
Malformed(e) == \E k \in TextFields : Get(e, k, <<>>) = <<>>

\* the e-mail with the empty text for each absent field
AsEmpty(e) == [k \in DOMAIN e \cup TextFields |-> Get(e, k, <<>>)]

C26_EmptyTextNormalVerdict ==
    Called /\ Malformed(LastEmail) /\ WellFormed(LastEmail) =>
        /\ last.path = "exception" => last.generated
        /\ last.path \in {"spam", "no_response", "responded"} =>
              /\ last.category = parse_email_for_response(AsEmpty(LastEmail)).category
              /\ Get(LastEmail, "subject", <<>>) = <<>> /\ Get(LastEmail, "body", <<>>) = <<>>
                    => /\ last.category = "customer_inquiry"
                       /\ last.prompt.sentiment = "neutral"
                       /\ last.prompt.priority = "low"

C26_EmptyTextAnswered ==
    /\ Called /\ last.path = "responded" /\ "body" \notin DOMAIN LastEmail
    /\ LastEmail.subject = <<>>

----------------------------------------------------------------------------
(* Replies per sender *)

\* the replies sent to e-mails with this from value inside the rate window that
\* ends now
RepliesTo(from) ==
    { d \in dispatched : d.from = from /\ InWindow(d.at, now, config.rate_limit_window) }

\* C27: at every moment the replies sent inside the trailing rate window to
\* e-mails that carry one and the same from value are at most
\* max_emails_per_sender, and each of them has a record in the ledger that is
\* no older than the reply.
C27_RepliesPerSenderBounded ==
    \A from \in { e.from : e \in { m \in inbox : "from" \in DOMAIN m } } :
        /\ Cardinality(RepliesTo(from)) <= config.max_emails_per_sender
        /\ \A d \in RepliesTo(from) :
              /\ is_processed(processed_emails, d.id)
              /\ processed_emails.emails[d.id].processed_at >= d.at

\* the limit is reached for a sender and a further e-mail of that sender was
\* turned down for it
C27_Witness ==
    /\ Called /\ ~last.sent /\ ~last.pre.processed
    /\ last.pre.sender_count >= config.max_emails_per_sender
    /\ Cardinality(RepliesTo(LastEmail.from)) = config.max_emails_per_sender

----------------------------------------------------------------------------
(* A tracker constructed with another max_history_days *)

\* faulty variant: the cutoff lies one day too late
emails_to_remove_for_day_short(days, pe, t) ==
    { email_id \in DOMAIN pe.emails :
        pe.emails[email_id].processed_at <= t - HoursPerDay * (days - 1) }

\* emails_to_remove of a tracker with max_history_days = days
emails_to_remove_for(days, pe, t) ==
    { email_id \in DOMAIN pe.emails :
        pe.emails[email_id].processed_at < t - HoursPerDay * days }

\* _cleanup_old_entries of that tracker
_cleanup_old_entries_for(days, pe, t) ==
    LET Remove(gone) ==
            IF gone # {}
            THEN [emails       |-> [i \in (DOMAIN pe.emails) \ gone |-> pe.emails[i]],
                  last_cleanup |-> t]
            ELSE pe
    IN  Remove(emails_to_remove_for(days, pe, t))

\* mark_as_processed of that tracker
mark_as_processed_for(days, pe, t, email_id, email_data, response_sent) ==
    LET Periodic(written) ==
            IF CleanupDue(written, t) THEN _cleanup_old_entries_for(days, written, t)
            ELSE written
    IN  Periodic(record_written(pe, t, email_id, email_data, response_sent))

\* the values of max_history_days the tracker is constructed with: one day, two
\* days and the default
Retentions == {1, 2, max_history_days}

InitRetention ==
    /\ inbox = {}
    /\ \E days \in Retentions :
          config = [ spam_threshold        |-> DefaultThreshold,
                     max_emails_per_sender |-> max_emails_per_sender,
                     rate_limit_window     |-> rate_limit_window,
                     max_history_days      |-> days ]
    /\ InitLedger
    /\ arg = NoCall
    /\ ret = NoCall

\* EmailTracker.mark_as_processed(email_id, email_data, response_sent); every
\* change of the ledger in the call is followed by a save
MarkRetention ==
    \E email_id \in TrackerIds, email_data \in TrackerData, response_sent \in BOOLEAN :
    \E after \in {mark_as_processed_for(config.max_history_days, processed_emails, now,
                                        email_id, email_data, response_sent)} :
        /\ processed_emails' = after
        /\ history_file' = json_dump(after)
        /\ auto_cleanup' = IF CleanupDue(processed_emails, now) THEN now ELSE auto_cleanup
        /\ last' = [ op |-> "mark_as_processed", id |-> email_id, at |-> now,
                     email_data |-> email_data, response_sent |-> response_sent,
                     pre |-> processed_emails,
                     cleanup_ran |-> CleanupDue(processed_emails, now),
                     prev_auto_cleanup |-> auto_cleanup ]
        /\ UNCHANGED <<inbox, config, now, replies, dispatched, peer, arg, ret>>

NextRetention == MarkRetention \/ TickTracker

SpecRetention == InitRetention /\ [][NextRetention]_vars

\* the records the latest mark_as_processed call removed
RemovedByMark == (DOMAIN last.pre.emails) \ (DOMAIN processed_emails.emails)

\* C28: whatever max_history_days of one day or more the tracker has, right
\* after mark_as_processed(id) the ledger holds the record of id written by the
\* call, also when the call ran the cleanup; the records the call removed are
\* other ids' records older than max_history_days.
C28_MarkedSurvivesCleanup ==
    last.op = "mark_as_processed" =>
        /\ is_processed(processed_emails, last.id)
        /\ processed_emails.emails[last.id].processed_at = last.at
        /\ \A i \in RemovedByMark :
              /\ last.cleanup_ran /\ i # last.id
              /\ last.pre.emails[i].processed_at
                    < last.at - HoursPerDay * config.max_history_days

\* with the default max_history_days the tracker is the one of the other
\* specifications
RetentionDefaultAgrees ==
    last.op = "mark_as_processed" /\ config.max_history_days = max_history_days =>
        processed_emails = mark_as_processed(last.pre, last.at, last.id, last.email_data,
                                             last.response_sent)

\* a call on an id whose own record had expired ran the cleanup, which removed
\* the other id's record and kept the one just written
C28_Witness ==
    /\ last.op = "mark_as_processed" /\ last.cleanup_ran
    /\ config.max_history_days = 1
    /\ RemovedByMark # {}
    /\ last.id \in DOMAIN last.pre.emails
    /\ last.pre.emails[last.id].processed_at < last.at - HoursPerDay
    /\ is_processed(processed_emails, last.id)

----------------------------------------------------------------------------
(* Two pipeline processes on one history file *)

\* Each process holds the ledger it loaded when its EmailTracker was
\* constructed; is_processed and count_sender_emails read that copy and
\* _save_history writes it out whole.  The calls of the two processes take
\* turns (the lock); a whole process_single_email call is one turn here, which
\* is one of the schedules a lock around every single ledger call allows.
Procs == {1, 2}

SharedInbox == {E1, E3}

InitShared ==
    /\ inbox = SharedInbox
    /\ config = [ spam_threshold        |-> DefaultThreshold,
                  max_emails_per_sender |-> max_emails_per_sender,
                  rate_limit_window     |-> rate_limit_window ]
    /\ now = 0
    /\ history_file = Absent
    \* both EmailTracker() calls of main.py:39 found no file
    /\ processed_emails = _load_history(history_file, now)
    /\ replies = [i \in IdsOf(inbox) |-> 0]
    /\ peer = [ running |-> 1,
                processed_emails |-> _load_history(history_file, now),
                replies |-> [i \in IdsOf(inbox) |-> 0] ]
    /\ last = NoCall
    /\ auto_cleanup = NoPass
    /\ dispatched = {}
    /\ arg = NoCall
    /\ ret = NoCall

\* the lock passes to the other process
Switch ==
    /\ processed_emails' = peer.processed_emails
    /\ replies' = peer.replies
    /\ peer' = [ running |-> CHOOSE p \in Procs : p # peer.running,
                 processed_emails |-> processed_emails,
                 replies |-> replies ]
    /\ UNCHANGED <<inbox, config, now, last, arg, ret, history_file, auto_cleanup,
                   dispatched>>

ProcessShared == ProcessNext

\* the two processes run within one hour
NextShared == ProcessShared \/ Switch

SpecShared == InitShared /\ [][NextShared]_vars

\* the ids the history file holds a record of
IdsInFile == IF history_file.exists THEN { entry[1] : entry \in history_file.emails } ELSE {}

\* the ids one of the two processes holds a record of that has not expired
LiveIds(pe) ==
    { i \in DOMAIN pe.emails :
        pe.emails[i].processed_at >= now - HoursPerDay * max_history_days }

\* C29: with the calls of the two processes on the shared file taking turns,
\* every record one of the processes wrote and that has not expired is in the
\* file, and no e-mail is answered by both processes.
C29_SharedStoreSafe ==
    /\ LiveIds(processed_emails) \cup LiveIds(peer.processed_emails) \subseteq IdsInFile
    /\ \A i \in DOMAIN replies : ~(replies[i] >= 1 /\ peer.replies[i] >= 1)

\* the file holds what the process that saved last has in memory
C29_FileIsLastSaversLedger ==
    Called => \/ history_file = json_dump(processed_emails)
              \/ history_file = json_dump(peer.processed_emails)
              \/ last.marks = 0

\* an e-mail both processes answered
C29_BothAnswered ==
    \E i \in DOMAIN replies : replies[i] >= 1 /\ peer.replies[i] >= 1

----------------------------------------------------------------------------
(* EmailProcessor._clean_email_body *)

\* A body is the sequence of its lines, body.split('\n'); each line is the
\* string of its characters.  The empty body is the one empty line.
EmptyBody == <<"">>

RECURSIVE LStrip(_)
LStrip(line) ==
    IF Len(line) > 0 /\ SubSeq(line, 1, 1) = " "
    THEN LStrip(SubSeq(line, 2, Len(line))) ELSE line

RECURSIVE RStrip(_)
RStrip(line) ==
    IF Len(line) > 0 /\ SubSeq(line, Len(line), Len(line)) = " "
    THEN RStrip(SubSeq(line, 1, Len(line) - 1)) ELSE line

\* line.strip()
Strip(line) == LStrip(RStrip(line))

\* line.startswith(prefix)
LineStartsWith(line, prefix) ==
    Len(line) >= Len(prefix) /\ SubSeq(line, 1, Len(prefix)) = prefix

HeaderPrefixes == {"Subject:", "From:", "To:", "Date:", "Re:"}

LooksLikeHeader(line) == \E prefix \in HeaderPrefixes : LineStartsWith(Strip(line), prefix)

\* faulty variant: skip_next_empty is not reset by a line that is kept
RECURSIVE cleaned_lines_sticky(_, _)
cleaned_lines_sticky(lines, skip_next_empty) ==
    IF lines = <<>> THEN <<>>
    ELSE IF LooksLikeHeader(Head(lines)) THEN cleaned_lines_sticky(Tail(lines), TRUE)
    ELSE IF skip_next_empty /\ Strip(Head(lines)) = ""
    THEN cleaned_lines_sticky(Tail(lines), FALSE)
    ELSE <<Head(lines)>> \o cleaned_lines_sticky(Tail(lines), skip_next_empty)

\* the loop over the lines: cleaned_lines once the lines from here on are done
RECURSIVE cleaned_lines(_, _)
cleaned_lines(lines, skip_next_empty) ==
    IF lines = <<>> THEN <<>>
    ELSE IF LooksLikeHeader(Head(lines)) THEN cleaned_lines(Tail(lines), TRUE)
    ELSE IF skip_next_empty /\ Strip(Head(lines)) = ""
    THEN cleaned_lines(Tail(lines), FALSE)
    ELSE <<Head(lines)>> \o cleaned_lines(Tail(lines), FALSE)

RECURSIVE DropBlankHead(_)
DropBlankHead(lines) ==
    IF lines # <<>> /\ Strip(Head(lines)) = "" THEN DropBlankHead(Tail(lines)) ELSE lines

RECURSIVE DropBlankLast(_)
DropBlankLast(lines) ==
    IF lines # <<>> /\ Strip(lines[Len(lines)]) = ""
    THEN DropBlankLast(SubSeq(lines, 1, Len(lines) - 1)) ELSE lines

\* '\n'.join(lines).strip()
JoinStrip(lines) ==
    LET Ends(inner) ==
            IF inner = <<>> THEN EmptyBody
            ELSE IF Len(inner) = 1 THEN <<Strip(inner[1])>>
            ELSE <<LStrip(inner[1])>> \o SubSeq(inner, 2, Len(inner) - 1)
                 \o <<RStrip(inner[Len(inner)])>>
    IN  Ends(DropBlankLast(DropBlankHead(lines)))

_clean_email_body(body) ==
    LET Fallback(cleaned_body) == IF cleaned_body = EmptyBody THEN body ELSE cleaned_body
    IN  IF body = EmptyBody THEN body
        ELSE Fallback(JoinStrip(cleaned_lines(body, FALSE)))

MaxLines == 4

BodyLines ==
    { "Subject: hi", " From: a", "Re: x", "", "  ", "Dear Bob,", " subject: low " }

RECURSIVE BodiesOf(_)
BodiesOf(n) ==
    IF n = 1 THEN { <<line>> : line \in BodyLines }
    ELSE BodiesOf(n - 1)
         \cup { Append(b, line) : b \in { c \in BodiesOf(n - 1) : Len(c) = n - 1 },
                                  line \in BodyLines }

InitClean ==
    /\ inbox = {}
    /\ config = [ spam_threshold        |-> DefaultThreshold,
                  max_emails_per_sender |-> max_emails_per_sender,
                  rate_limit_window     |-> rate_limit_window ]
    /\ InitLedger
    /\ arg \in { [body |-> b] : b \in BodiesOf(MaxLines) }
    /\ ret = NoCall

\* EmailProcessor._clean_email_body(body)
CallClean ==
    /\ ret = NoCall
    /\ ret' = [op |-> "_clean_email_body", value |-> _clean_email_body(arg.body)]
    /\ UNCHANGED <<inbox, config, now, processed_emails, replies, dispatched, peer, last, arg,
                   history_file, auto_cleanup>>

NextClean == CallClean

SpecClean == InitClean /\ [][NextClean]_vars

\* the places of the lines that are taken out: the header-like lines, and the
\* blank lines that directly follow a header-like line
TakenOut(body) ==
    { i \in DOMAIN body :
        \/ LooksLikeHeader(body[i])
        \/ Strip(body[i]) = "" /\ i > 1 /\ LooksLikeHeader(body[i - 1]) }

RECURSIVE Remaining(_, _)
Remaining(body, i) ==
    IF i > Len(body) THEN <<>>
    ELSE (IF i \in TakenOut(body) THEN <<>> ELSE <<body[i]>>) \o Remaining(body, i + 1)

C30_FallbackReached ==
    /\ ret.op = "_clean_email_body"
    /\ arg.body = <<"Subject: hi", "", " From: a">>
    /\ ret.value = arg.body

====
